---- MODULE Spec2Model ----
(***************************************************************************)
(* Verification development for notation-go.                               *)
(*                                                                         *)
(* Spec          the two verification flows notation.Verify and            *)
(*               notation.VerifyLocalContent, with the ListSignatures      *)
(*               adapter of registry.repositoryClient.                     *)
(* SpecSign      the two signing flows notation.Sign and                   *)
(*               notation.SignLocalContent, with jws.PluginSigner as the   *)
(*               signer and registry.repositoryClient as the repository.   *)
(* SpecRegistry  the operations of the registry clients called on their    *)
(*               own: FetchSignatureBlob, PushSignature, and GetBlob,      *)
(*               getArtifactManifest, PutSignatureManifest of the older    *)
(*               RepositoryClient.                                         *)
(* SpecConfig    jws.PluginSigner.mergeConfig and the two requests that    *)
(*               carry its result, with Go's maps as heap objects.         *)
(* SpecStore     verification.LoadX509TrustStore over a directory.         *)
(* SpecRoundTrip notation.Sign followed by notation.Verify of the same     *)
(*               reference on the repository Sign pushed to.               *)
(* SpecBoth      notation.Verify followed by notation.VerifyLocalContent   *)
(*               with a repository and a verifier that answer alike.       *)
(*                                                                         *)
(* One behaviour is one call of one entry point.  The call's arguments     *)
(* are fixed in the initial state; the answers of the collaborators        *)
(* (repository, verifier, plugin runner) are drawn when the call is made   *)
(* and recorded in a history variable.                                     *)
(***************************************************************************)
EXTENDS Integers, Sequences, FiniteSets, TLC

\* Bounds of the model.
MaxAttempts == 3   \* largest value of MaxSignatureAttempts tried
MaxPages == 2      \* largest number of referrer pages ListSignatures delivers
MaxPageLen == 2    \* largest number of signature manifests in one page

Flows == {"Verify", "VerifyLocalContent"}

\* ocispec.Descriptor{} and the descriptors Resolve may answer with.
ZeroDescriptor == "ocispec.Descriptor{}"
Descriptors == {"sha256:aaa", "sha256:bbb"}

\* trustpolicy.VerificationLevel values a verifier may report.
Levels == {"strict", "skip"}

VARIABLES
    flow,                    \* which entry point was called
    repoIsRemote,            \* repo.(orasRegistry.Repository) succeeds
    TargetAtLocal,           \* localVerifyOpts.TargetAtLocal
    MaxSignatureAttempts,    \* (remote|localVerify)Opts.MaxSignatureAttempts
    listedAt,                \* where the registry lists the signature Sign pushed (0: none)
    first,                   \* the Verify call that went before this call, if any
    pc,                      \* position in the flow
    artifactDescriptor,      \* artifactDescriptor / targetDesc
    numOfSignatureProcessed,
    verificationOutcomes,
    verificationFailedErr,
    signatureManifests,      \* the page handed to the callback
    idx,                     \* position of the range loop in the page
    cbErr,                   \* what the callback returned
    err,                     \* what ListSignatures returned
    delivered,               \* every signature manifest delivered so far
    pagesDelivered,
    retDesc, retOutcomes, retErr,   \* the flow's three results
    calls                    \* history of the calls made on collaborators

\* Variables of the signing flows and of jws.PluginSigner.
VARIABLES
    signFlow,                \* which signing entry point was called
    ExpiryDuration,          \* (remote|local)Opts.ExpiryDuration, in ticks
    ArtifactReference,       \* remoteOpts.ArtifactReference
    repoIsNil,               \* repo == nil
    UserMetadata,            \* (remote|local)Opts.UserMetadata
    KeyID,                   \* PluginSigner.KeyID
    spc,                     \* position in the signing flow
    givenAnnotations,        \* the map the given descriptor pointed to, as it was
    annotationMaps,          \* the map objects: [given |-> ..., fresh |-> ...]
    targetDesc,              \* the flow's targetDesc: digest and map reference
    warned,                  \* logger.Warnf was called
    key,                     \* the describe-key response
    signing,                 \* the signing input sent to generate-signature
    resp,                    \* the generate-signature response
    sig,                     \* what signer.Sign returned: envelope and error
    signRet,                 \* what the signing flow returned
    signCalls                \* history of the calls made on collaborators

signVars == <<signFlow, ExpiryDuration, ArtifactReference, repoIsNil, UserMetadata,
              KeyID, spc, givenAnnotations, annotationMaps, targetDesc,
              warned, key, signing, resp, sig, signRet, signCalls>>

\* Variables of the registry clients.
VARIABLES
    regOp,                   \* the client operation called
    rpc,                     \* position in the operation
    regArgs,                 \* the operation's arguments
    blobs,                   \* blobs the registry stores
    manifests,               \* manifests the registry stores
    blobDesc,                \* descriptor of the blob just uploaded / selected
    regRet,                  \* what the operation returned
    regCalls                 \* history of the requests sent to the registry

registryVars == <<regOp, rpc, regArgs, blobs, manifests, blobDesc, regRet, regCalls>>

\* Variables of the plugin configuration of jws.PluginSigner.
VARIABLES
    PluginConfig,            \* s.PluginConfig, as it was when Sign was called
    optsPluginConfig,        \* opts.PluginConfig, as it was when Sign was called
    configMaps,              \* the map objects: [s |-> ..., opts |-> ..., c |-> ...]
    config,                  \* which map object generateSignature's config is
    ranging,                 \* keys the running range loop has not visited yet
    cpc,                     \* position in generateSignature
    requests                 \* the requests handed to the runner

configVars == <<PluginConfig, optsPluginConfig, configMaps, config, ranging, cpc, requests>>

\* Variables of verification.LoadX509TrustStore.
VARIABLES
    path,                    \* what the given path is on disk
    files,                   \* what os.ReadDir listed: the type of each entry
    fileIdx,                 \* position of the range loop in files
    fileCerts,               \* what ReadCertificateFile returned for each file read
    trustStore,              \* trustStore.Certificates so far
    tpc,                     \* position in LoadX509TrustStore
    storeRet                 \* what LoadX509TrustStore returned

storeVars == <<path, files, fileIdx, fileCerts, trustStore, tpc, storeRet>>

verifyVars == <<flow, repoIsRemote, TargetAtLocal, MaxSignatureAttempts, listedAt, first, pc,
                artifactDescriptor, numOfSignatureProcessed, verificationOutcomes,
                verificationFailedErr, signatureManifests, idx, cbErr, err,
                delivered, pagesDelivered, retDesc, retOutcomes, retErr, calls>>

vars == <<verifyVars, signVars, registryVars, configVars, storeVars>>

\* What no step of a verification flow changes: the call's arguments, and the
\* state of the signing flows and of the registry clients.
inputs == <<flow, repoIsRemote, TargetAtLocal, MaxSignatureAttempts, listedAt, first, signVars,
            registryVars, configVars, storeVars>>
iter == <<numOfSignatureProcessed, verificationOutcomes, verificationFailedErr,
          signatureManifests, idx, cbErr, err, delivered, pagesDelivered>>
rets == <<retDesc, retOutcomes, retErr>>

-----------------------------------------------------------------------------
\* Errors: the Go type, the part of the message that tells the kind, and the
\* signature the error is about (0 when none).
Error(t, m, s) == [type |-> t, msg |-> m, sig |-> s]
NoError == Error("nil", "", 0)

errDoneVerification == Error("errorString", "done verification", 0)

errExceededMaxVerificationLimit ==
    Error("ErrorVerificationFailed",
          "total number of signatures associated with an artifact should be less than", 0)

ErrorVerificationFailed == Error("ErrorVerificationFailed", "", 0)

errMaxSignatureAttempts ==
    Error("ErrorSignatureRetrievalFailed",
          "verifyOptions.MaxSignatureAttempts expects a positive number", 0)

errNoSignature ==
    Error("ErrorSignatureRetrievalFailed", "no signature is associated with", 0)

errFetch(f, s) ==
    Error("ErrorSignatureRetrievalFailed",
          IF f = "Verify"
          THEN "unable to retrieve digital signature from the registry"
          ELSE "unable to retrieve digital signature from the OCI layout folder", s)

errRepoNotRemote == Error("errorString", "failed to verify: repo must be remote repository", 0)
errTargetNotLocal ==
    Error("errorString", "failed to verify local content: localVerifyOpts.TargetAtLocal is false", 0)
errRepoIsRemote ==
    Error("errorString", "failed to verify local content: repo cannot be remote repository", 0)

\* Errors of the collaborators.
errSkipVerify == Error("verifierError", "SkipVerify", 0)
errParse == Error("parseError", "invalid reference", 0)
errResolve == Error("repositoryError", "Resolve", 0)
errReferrers == Error("repositoryError", "Referrers", 0)
errBlob(s) == Error("repositoryError", "FetchSignatureBlob", s)
errVerifier(s) == Error("verifierError", "Verify", s)

\* outcome.Error of a failed signature.
errUserMetadata(s) == Error("ErrorUserMetadataVerificationFailed", "", s)
errIntegrity(s) == Error("ErrorVerificationInconclusive", "integrity", s)

-----------------------------------------------------------------------------
\* VerificationOutcome.  A nil slice, pointer or error is 0, <<>>, "nil", NoError.
Outcome(raw, env, lvl, res, e) ==
    [RawSignature |-> raw, EnvelopeContent |-> env, VerificationLevel |-> lvl,
     VerificationResults |-> res, Error |-> e]

\* &VerificationOutcome{VerificationLevel: verificationLevel}
SkipOutcome(lvl) == Outcome(0, 0, lvl, <<>>, NoError)

\* What a verifier hands back for signature s: the blob it was given, the
\* parsed envelope, its level, and the checks it made.
VerifierOutcome(s, e) == Outcome(s, s, "strict", <<"integrity">>, e)

\* One entry of the call history.
Call(op, s, r) == [op |-> op, sig |-> s, res |-> r]

Return(d, o, e) ==
    /\ retDesc' = d
    /\ retOutcomes' = o
    /\ retErr' = e
    /\ pc' = "done"

-----------------------------------------------------------------------------
\* A Go map[string]string is a set of <<key, value>> pairs.  A descriptor holds
\* a reference to a map object: "nil", "given" (the map of the descriptor the
\* flow was given) or "fresh" (a map made by the flow).
NoAnnotations == [ref |-> "nil", kv |-> {}]
NoMaps == [given |-> {}, fresh |-> {}]
Descriptor(d, r) == [digest |-> d, annotations |-> r]

\* signer.Sign's results and a signing flow's results before they exist.
NilEnvelope == [compact |-> <<>>, x5c |-> <<>>]
NoSignature == [envelope |-> NilEnvelope, chain |-> <<>>, err |-> NoError]
NoSignResult == [desc |-> Descriptor(ZeroDescriptor, "nil"), sig |-> NilEnvelope,
                 annotations |-> NoAnnotations, err |-> NoError]
NoResponse == [type |-> "none"]

\* No signing flow is running.
SignIdle ==
    /\ signFlow = "none"
    /\ ExpiryDuration = 0
    /\ ArtifactReference = ""
    /\ repoIsNil = FALSE
    /\ UserMetadata = {}
    /\ KeyID = ""
    /\ spc = "idle"
    /\ givenAnnotations = NoAnnotations
    /\ annotationMaps = NoMaps
    /\ targetDesc = Descriptor(ZeroDescriptor, "nil")
    /\ warned = FALSE
    /\ key = NoResponse
    /\ signing = ""
    /\ resp = NoResponse
    /\ sig = NoSignature
    /\ signRet = NoSignResult
    /\ signCalls = <<>>

\* ocispec.Descriptor{} of the registry clients.
EmptyDescriptor == [mediaType |-> "", digest |-> <<>>, size |-> 0]

NoRegistryResult == [bytes |-> "nil", desc |-> EmptyDescriptor, manifest |-> EmptyDescriptor,
                     err |-> NoError]

\* No map object: the empty function.
EmptyMap == [k \in {} |-> ""]

\* No Sign call on a PluginSigner with a plugin configuration is running.
ConfigIdle ==
    /\ PluginConfig = EmptyMap
    /\ optsPluginConfig = EmptyMap
    /\ configMaps = [s |-> EmptyMap, opts |-> EmptyMap, c |-> EmptyMap]
    /\ config = "nil"
    /\ ranging = {}
    /\ cpc = "idle"
    /\ requests = <<>>

\* A nil *X509TrustStore.
NilStore == [isNil |-> TRUE, Certificates |-> <<>>]

\* No call went before: what a finished call leaves behind is its history,
\* its processed count, the descriptor Resolve gave it, what ListSignatures
\* returned to it, and its three results.
NoRun ==
    [done |-> FALSE, calls |-> <<>>, processed |-> 0, resolved |-> ZeroDescriptor,
     listErr |-> NoError, desc |-> ZeroDescriptor, outcomes |-> <<>>, err |-> NoError]

\* LoadX509TrustStore is not running.
StoreIdle ==
    /\ path = "none"
    /\ files = <<>>
    /\ fileIdx = 0
    /\ fileCerts = <<>>
    /\ trustStore = <<>>
    /\ tpc = "idle"
    /\ storeRet = [store |-> NilStore, err |-> NoError]

\* No operation of a registry client is running, and the registry is empty.
RegistryIdle ==
    /\ regOp = "none"
    /\ rpc = "idle"
    /\ regArgs = <<>>
    /\ blobs = {}
    /\ manifests = {}
    /\ blobDesc = EmptyDescriptor
    /\ regRet = NoRegistryResult
    /\ regCalls = <<>>

-----------------------------------------------------------------------------
Init ==
    /\ SignIdle
    /\ RegistryIdle
    /\ ConfigIdle
    /\ StoreIdle
    /\ flow \in Flows
    /\ repoIsRemote \in BOOLEAN
    /\ TargetAtLocal \in BOOLEAN
    /\ (flow = "Verify" => TargetAtLocal = FALSE)   \* RemoteVerifyOptions has no such field
    /\ MaxSignatureAttempts \in (0 - 1)..MaxAttempts
    /\ listedAt = 0
    /\ first = NoRun
    /\ pc = IF flow = "Verify" THEN "checkRepo" ELSE "checkTarget"
    /\ artifactDescriptor = ZeroDescriptor
    /\ numOfSignatureProcessed = 0
    /\ verificationOutcomes = <<>>
    /\ verificationFailedErr = NoError
    /\ signatureManifests = <<>>
    /\ idx = 0
    /\ cbErr = NoError
    /\ err = NoError
    /\ delivered = <<>>
    /\ pagesDelivered = 0
    /\ retDesc = ZeroDescriptor
    /\ retOutcomes = <<>>
    /\ retErr = NoError
    /\ calls = <<>>

-----------------------------------------------------------------------------
(* notation.Verify, up to the call of ListSignatures *)

\* if _, ok := repo.(orasRegistry.Repository); !ok { return ... }
Verify_CheckRepo ==
    /\ flow = "Verify" /\ pc = "checkRepo"
    /\ IF ~repoIsRemote
       THEN Return(ZeroDescriptor, <<>>, errRepoNotRemote)
       ELSE pc' = "skipVerify" /\ UNCHANGED rets
    /\ UNCHANGED <<inputs, artifactDescriptor, iter, calls>>

\* Variant: a reported skip does not return.
SkipVerifyBlock_NoReturn(next) ==
    \E kind \in {"none", "error", "skip", "noskip"}, lvl \in Levels :
        /\ kind # "skip" => lvl = "strict"
        /\ calls' = IF kind = "none" THEN calls
                    ELSE Append(calls, Call("SkipVerify", 0, kind))
        /\ CASE kind = "error" -> Return(ZeroDescriptor, <<>>, errSkipVerify)
             [] OTHER          -> pc' = next /\ UNCHANGED rets

\* The skipVerifier block of both flows: `next` is the position after it.
\* kind "none": the verifier does not implement skipVerifier.
SkipVerifyBlock(next) ==
    \E kind \in {"none", "error", "skip", "noskip"}, lvl \in Levels :
        /\ kind # "skip" => lvl = "strict"
        /\ calls' = IF kind = "none" THEN calls
                    ELSE Append(calls, Call("SkipVerify", 0, kind))
        /\ CASE kind = "error" -> Return(ZeroDescriptor, <<>>, errSkipVerify)
             [] kind = "skip"  -> Return(ZeroDescriptor, <<SkipOutcome(lvl)>>, NoError)
             [] OTHER          -> pc' = next /\ UNCHANGED rets

Verify_SkipVerify ==
    /\ flow = "Verify" /\ pc = "skipVerify"
    /\ SkipVerifyBlock("checkMax")
    /\ UNCHANGED <<inputs, artifactDescriptor, iter>>

\* if opts.MaxSignatureAttempts <= 0 { return ... }
CheckMaxSignatureAttempts(next) ==
    IF MaxSignatureAttempts <= 0
    THEN Return(ZeroDescriptor, <<>>, errMaxSignatureAttempts)
    ELSE pc' = next /\ UNCHANGED rets

Verify_CheckMax ==
    /\ flow = "Verify" /\ pc = "checkMax"
    /\ CheckMaxSignatureAttempts("parseReference")
    /\ UNCHANGED <<inputs, artifactDescriptor, iter, calls>>

\* orasRegistry.ParseReference and the ref.Reference == "" check.
Verify_ParseReference ==
    /\ flow = "Verify" /\ pc = "parseReference"
    /\ \E r \in {"invalid", "noReference", "tag", "digest"} :
        CASE r = "invalid" ->
                Return(ZeroDescriptor, <<>>,
                       Error("ErrorSignatureRetrievalFailed", errParse.msg, 0))
          [] r = "noReference" ->
                Return(ZeroDescriptor, <<>>,
                       Error("ErrorSignatureRetrievalFailed",
                             "reference is missing digest or tag", 0))
          [] OTHER -> pc' = "resolve" /\ UNCHANGED rets
    /\ UNCHANGED <<inputs, artifactDescriptor, iter, calls>>

\* repo.Resolve; Verify wraps its error, VerifyLocalContent returns it as is.
ResolveStep(wrap, next) ==
    \E d \in Descriptors \cup {ZeroDescriptor} :
        /\ calls' = Append(calls, Call("Resolve", 0, IF d = ZeroDescriptor THEN "error" ELSE d))
        /\ IF d = ZeroDescriptor
           THEN /\ Return(ZeroDescriptor, <<>>,
                          IF wrap
                          THEN Error("ErrorSignatureRetrievalFailed", errResolve.msg, 0)
                          ELSE errResolve)
                /\ UNCHANGED artifactDescriptor
           ELSE /\ artifactDescriptor' = d
                /\ pc' = next
                /\ UNCHANGED rets

Verify_Resolve ==
    /\ flow = "Verify" /\ pc = "resolve"
    /\ ResolveStep(TRUE, "listSignatures")
    /\ UNCHANGED <<inputs, iter>>

-----------------------------------------------------------------------------
(* notation.VerifyLocalContent, up to the call of ListSignatures *)

\* if !localVerifyOpts.TargetAtLocal { return ... }
Local_CheckTarget ==
    /\ flow = "VerifyLocalContent" /\ pc = "checkTarget"
    /\ IF ~TargetAtLocal
       THEN Return(ZeroDescriptor, <<>>, errTargetNotLocal)
       ELSE pc' = "checkMax" /\ UNCHANGED rets
    /\ UNCHANGED <<inputs, artifactDescriptor, iter, calls>>

Local_CheckMax ==
    /\ flow = "VerifyLocalContent" /\ pc = "checkMax"
    /\ CheckMaxSignatureAttempts("checkRepo")
    /\ UNCHANGED <<inputs, artifactDescriptor, iter, calls>>

\* Variant: the repository type is not looked at.
Local_CheckRepo_Missing ==
    /\ flow = "VerifyLocalContent" /\ pc = "checkRepo"
    /\ pc' = "resolve"
    /\ UNCHANGED <<inputs, artifactDescriptor, iter, rets, calls>>

\* if _, ok := repo.(orasRegistry.Repository); ok { return ... }
Local_CheckRepo ==
    /\ flow = "VerifyLocalContent" /\ pc = "checkRepo"
    /\ IF repoIsRemote
       THEN Return(ZeroDescriptor, <<>>, errRepoIsRemote)
       ELSE pc' = "resolve" /\ UNCHANGED rets
    /\ UNCHANGED <<inputs, artifactDescriptor, iter, calls>>

Local_Resolve ==
    /\ flow = "VerifyLocalContent" /\ pc = "resolve"
    /\ ResolveStep(FALSE, "skipVerify")
    /\ UNCHANGED <<inputs, iter>>

Local_SkipVerify ==
    /\ flow = "VerifyLocalContent" /\ pc = "skipVerify"
    /\ SkipVerifyBlock("listSignatures")
    /\ UNCHANGED <<inputs, artifactDescriptor, iter>>

-----------------------------------------------------------------------------
(* The iteration over the signatures: repo.ListSignatures(ctx, desc, fn) and *)
(* the callback fn, which both flows spell out in the same way.             *)

\* What verifier.Verify answers for signature s: (outcome, err).  isNil says
\* that the outcome pointer is nil.
VerifyResults == {"verified", "failed", "failedUserMetadata", "nilOutcome"}

VerifierAnswer(s, r) ==
    CASE r = "verified" ->
            [isNil |-> FALSE, outcome |-> VerifierOutcome(s, NoError), err |-> NoError]
      [] r = "failed" ->
            [isNil |-> FALSE, outcome |-> VerifierOutcome(s, errIntegrity(s)),
             err |-> errIntegrity(s)]
      [] r = "failedUserMetadata" ->
            [isNil |-> FALSE, outcome |-> VerifierOutcome(s, errUserMetadata(s)),
             err |-> errUserMetadata(s)]
      [] OTHER ->
            [isNil |-> TRUE, outcome |-> Outcome(0, 0, "nil", <<>>, NoError),
             err |-> errVerifier(s)]

\* Variant: the limit test is off by one.
LimitReached_OffByOne(n, max) == n > max

\* numOfSignatureProcessed >= opts.MaxSignatureAttempts
LimitReached(n, max) == n >= max

\* Variant: the page is walked from its end.
RangeElement_Reversed(page, i) == page[Len(page) + 1 - i]

\* The element the range loop hands out at position i.
RangeElement(page, i) == page[i]

\* Variant: the user-metadata failure is not told apart.
IsUserMetadataFailure_Never(e) == FALSE

\* outcome.Error.(ErrorUserMetadataVerificationFailed)
IsUserMetadataFailure(e) == e.type = "ErrorUserMetadataVerificationFailed"

\* Variant: any verification error ends the callback.
AfterVerify_FailureStops(a) ==
    IF a.err # NoError THEN "returnErr" ELSE "returnDone"

\* Variant: a verified signature does not end the callback.
AfterVerify_NoShortCircuit(a) ==
    IF a.err # NoError /\ a.isNil THEN "returnErr" ELSE "continue"

\* Variant: an error with a nil outcome is taken for a failed signature.
AfterVerify_NilOutcomeContinues(a) ==
    IF a.err # NoError THEN "continue" ELSE "returnDone"

\* What the callback does with verifier.Verify's answer.
AfterVerify(a) ==
    IF a.err # NoError
    THEN IF a.isNil THEN "returnErr" ELSE "continue"
    ELSE "returnDone"

\* var verificationOutcomes ...; numOfSignatureProcessed := 0;
\* verificationFailedErr = ErrorVerificationFailed{}; repo.ListSignatures(...)
CallListSignatures(f) ==
    /\ flow = f /\ pc = "listSignatures"
    /\ verificationOutcomes' = <<>>
    /\ numOfSignatureProcessed' = 0
    /\ verificationFailedErr' = ErrorVerificationFailed
    /\ calls' = Append(calls, Call("ListSignatures", 0, ""))
    /\ pc' = "referrers"
    /\ UNCHANGED <<inputs, artifactDescriptor, signatureManifests, idx, cbErr, err,
                   delivered, pagesDelivered, rets>>

Verify_ListSignatures == CallListSignatures("Verify")
Local_ListSignatures == CallListSignatures("VerifyLocalContent")

\* repositoryClient.ListSignatures hands fn to Repository.Referrers, which
\* calls fn once per page of referrers, in order, returns fn's error as soon
\* as fn returns one, and otherwise returns nil after the last page or its own
\* error.  The repository given to VerifyLocalContent is held to the same
\* contract.  The signature manifests are numbered in delivery order.
ListSignatures_NextPage ==
    /\ pc = "referrers"
    /\ pagesDelivered < MaxPages
    /\ \E n \in 0..MaxPageLen :
        /\ signatureManifests' = [i \in 1..n |-> Len(delivered) + i]
        /\ delivered' = delivered \o [i \in 1..n |-> Len(delivered) + i]
        /\ calls' = Append(calls, Call("fn", n, ""))
    /\ pagesDelivered' = pagesDelivered + 1
    /\ idx' = 1
    /\ pc' = "loop"
    /\ UNCHANGED <<inputs, artifactDescriptor, numOfSignatureProcessed,
                   verificationOutcomes, verificationFailedErr, cbErr, err, rets>>

ListSignatures_Return ==
    /\ pc = "referrers"
    /\ \E e \in {NoError, errReferrers} : err' = e
    /\ pc' = "after"
    /\ UNCHANGED <<inputs, artifactDescriptor, numOfSignatureProcessed,
                   verificationOutcomes, verificationFailedErr, signatureManifests,
                   idx, cbErr, delivered, pagesDelivered, rets, calls>>

ListSignatures_CallbackReturned ==
    /\ pc = "callbackReturned"
    /\ IF cbErr # NoError
       THEN err' = cbErr /\ pc' = "after"
       ELSE err' = err /\ pc' = "referrers"
    /\ UNCHANGED <<inputs, artifactDescriptor, numOfSignatureProcessed,
                   verificationOutcomes, verificationFailedErr, signatureManifests,
                   idx, cbErr, delivered, pagesDelivered, rets, calls>>

\* for _, sigManifestDesc := range signatureManifests {
\*     if numOfSignatureProcessed >= MaxSignatureAttempts { break }
\*     numOfSignatureProcessed++
LoopHead(f) ==
    /\ flow = f /\ pc = "loop"
    /\ IF idx > Len(signatureManifests) \/ LimitReached(numOfSignatureProcessed, MaxSignatureAttempts)
       THEN pc' = "loopEnd" /\ UNCHANGED numOfSignatureProcessed
       ELSE pc' = "fetch" /\ numOfSignatureProcessed' = numOfSignatureProcessed + 1
    /\ UNCHANGED <<inputs, artifactDescriptor, verificationOutcomes, verificationFailedErr,
                   signatureManifests, idx, cbErr, err, delivered, pagesDelivered,
                   rets, calls>>

Verify_LoopHead == LoopHead("Verify")
\* Variant: VerifyLocalContent's copy of the loop tests the limit with >.
Local_LoopHead_OffByOne ==
    /\ flow = "VerifyLocalContent" /\ pc = "loop"
    /\ IF idx > Len(signatureManifests) \/ numOfSignatureProcessed > MaxSignatureAttempts
       THEN pc' = "loopEnd" /\ UNCHANGED numOfSignatureProcessed
       ELSE pc' = "fetch" /\ numOfSignatureProcessed' = numOfSignatureProcessed + 1
    /\ UNCHANGED <<inputs, artifactDescriptor, verificationOutcomes, verificationFailedErr,
                   signatureManifests, idx, cbErr, err, delivered, pagesDelivered,
                   rets, calls>>

Local_LoopHead == LoopHead("VerifyLocalContent")

\* sigBlob, sigDesc, err := repo.FetchSignatureBlob(ctx, sigManifestDesc)
\* if err != nil { return ErrorSignatureRetrievalFailed{...} }
FetchSignatureBlob(f) ==
    /\ flow = f /\ pc = "fetch"
    /\ LET s == RangeElement(signatureManifests, idx) IN
       \E ok \in BOOLEAN :
        /\ calls' = Append(calls, Call("FetchSignatureBlob", s, IF ok THEN "ok" ELSE "error"))
        /\ IF ok
           THEN pc' = "verify" /\ UNCHANGED cbErr
           ELSE pc' = "callbackReturned" /\ cbErr' = errFetch(f, s)
    /\ UNCHANGED <<inputs, artifactDescriptor, numOfSignatureProcessed, verificationOutcomes,
                   verificationFailedErr, signatureManifests, idx, err, delivered,
                   pagesDelivered, rets>>

Verify_FetchSignatureBlob == FetchSignatureBlob("Verify")
Local_FetchSignatureBlob == FetchSignatureBlob("VerifyLocalContent")

\* Variant: the outcome of a failed signature is appended as well.
VerifySignature_KeepsFailedOutcome(f) ==
    /\ flow = f /\ pc = "verify"
    /\ LET s == RangeElement(signatureManifests, idx) IN
       \E r \in VerifyResults :
        LET a == VerifierAnswer(s, r)
            todo == AfterVerify(a)
        IN  /\ calls' = Append(calls, Call("Verify", s, r))
            /\ CASE todo = "returnErr" ->
                      /\ cbErr' = a.err
                      /\ pc' = "callbackReturned"
                      /\ UNCHANGED <<verificationOutcomes, verificationFailedErr, idx>>
                 [] todo = "continue" ->
                      /\ verificationOutcomes' = Append(verificationOutcomes, a.outcome)
                      /\ verificationFailedErr' =
                            IF IsUserMetadataFailure(a.outcome.Error)
                            THEN a.outcome.Error ELSE verificationFailedErr
                      /\ idx' = idx + 1
                      /\ pc' = "loop"
                      /\ UNCHANGED cbErr
                 [] OTHER ->
                      /\ verificationOutcomes' = Append(verificationOutcomes, a.outcome)
                      /\ cbErr' = errDoneVerification
                      /\ pc' = "callbackReturned"
                      /\ UNCHANGED <<verificationFailedErr, idx>>
    /\ UNCHANGED <<inputs, artifactDescriptor, numOfSignatureProcessed, signatureManifests,
                   err, delivered, pagesDelivered, rets>>

\* outcome, err := verifier.Verify(ctx, desc, sigBlob, opts) and what follows
\* it in the loop body.
VerifySignature(f) ==
    /\ flow = f /\ pc = "verify"
    /\ LET s == RangeElement(signatureManifests, idx) IN
       \E r \in VerifyResults :
        LET a == VerifierAnswer(s, r)
            todo == AfterVerify(a)
        IN  /\ calls' = Append(calls, Call("Verify", s, r))
            /\ CASE todo = "returnErr" ->
                      /\ cbErr' = a.err
                      /\ pc' = "callbackReturned"
                      /\ UNCHANGED <<verificationOutcomes, verificationFailedErr, idx>>
                 [] todo = "continue" ->
                      /\ verificationFailedErr' =
                            IF IsUserMetadataFailure(a.outcome.Error)
                            THEN a.outcome.Error ELSE verificationFailedErr
                      /\ idx' = idx + 1
                      /\ pc' = "loop"
                      /\ UNCHANGED <<verificationOutcomes, cbErr>>
                 [] OTHER ->
                      /\ verificationOutcomes' = Append(verificationOutcomes, a.outcome)
                      /\ cbErr' = errDoneVerification
                      /\ pc' = "callbackReturned"
                      /\ UNCHANGED <<verificationFailedErr, idx>>
    /\ UNCHANGED <<inputs, artifactDescriptor, numOfSignatureProcessed, signatureManifests,
                   err, delivered, pagesDelivered, rets>>

Verify_VerifySignature == VerifySignature("Verify")
Local_VerifySignature == VerifySignature("VerifyLocalContent")

\* if numOfSignatureProcessed >= MaxSignatureAttempts {
\*     return errExceededMaxVerificationLimit }
\* return nil
LoopEnd(f) ==
    /\ flow = f /\ pc = "loopEnd"
    /\ cbErr' = IF LimitReached(numOfSignatureProcessed, MaxSignatureAttempts)
                THEN errExceededMaxVerificationLimit ELSE NoError
    /\ pc' = "callbackReturned"
    /\ UNCHANGED <<inputs, artifactDescriptor, numOfSignatureProcessed, verificationOutcomes,
                   verificationFailedErr, signatureManifests, idx, err, delivered,
                   pagesDelivered, rets, calls>>

Verify_LoopEnd == LoopEnd("Verify")
Local_LoopEnd == LoopEnd("VerifyLocalContent")

\* Variant: the "Verification Failed" test is missing.
FinalResult_NoFailedCheck(e, n, outs, failedErr, desc) ==
    IF e # NoError /\ e # errDoneVerification
    THEN IF e = errExceededMaxVerificationLimit
         THEN <<ZeroDescriptor, outs, e>>
         ELSE <<ZeroDescriptor, <<>>, e>>
    ELSE IF n = 0
         THEN <<ZeroDescriptor, <<>>, errNoSignature>>
         ELSE <<desc, outs, NoError>>

\* Variant: the "no signature" test is missing.
FinalResult_NoEmptyCheck(e, n, outs, failedErr, desc) ==
    IF e # NoError /\ e # errDoneVerification
    THEN IF e = errExceededMaxVerificationLimit
         THEN <<ZeroDescriptor, outs, e>>
         ELSE <<ZeroDescriptor, <<>>, e>>
    ELSE IF Len(outs) = 0
         THEN <<ZeroDescriptor, outs, failedErr>>
         ELSE <<desc, outs, NoError>>

\* The statements after ListSignatures: the flow's three results.
FinalResult(e, n, outs, failedErr, desc) ==
    IF e # NoError /\ e # errDoneVerification
    THEN IF e = errExceededMaxVerificationLimit
         THEN <<ZeroDescriptor, outs, e>>
         ELSE <<ZeroDescriptor, <<>>, e>>
    ELSE IF n = 0
         THEN <<ZeroDescriptor, <<>>, errNoSignature>>
         ELSE IF Len(outs) = 0
              THEN <<ZeroDescriptor, outs, failedErr>>
              ELSE <<desc, outs, NoError>>

ReturnResult(f) ==
    /\ flow = f /\ pc = "after"
    /\ LET r == FinalResult(err, numOfSignatureProcessed, verificationOutcomes,
                            verificationFailedErr, artifactDescriptor)
       IN Return(r[1], r[2], r[3])
    /\ UNCHANGED <<inputs, artifactDescriptor, iter, calls>>

Verify_Return == ReturnResult("Verify")
Local_Return == ReturnResult("VerifyLocalContent")

-----------------------------------------------------------------------------
Next ==
    \/ Verify_CheckRepo
    \/ Verify_SkipVerify
    \/ Verify_CheckMax
    \/ Verify_ParseReference
    \/ Verify_Resolve
    \/ Verify_ListSignatures
    \/ Verify_LoopHead
    \/ Verify_FetchSignatureBlob
    \/ Verify_VerifySignature
    \/ Verify_LoopEnd
    \/ Verify_Return
    \/ Local_CheckTarget
    \/ Local_CheckMax
    \/ Local_CheckRepo
    \/ Local_Resolve
    \/ Local_SkipVerify
    \/ Local_ListSignatures
    \/ Local_LoopHead
    \/ Local_FetchSignatureBlob
    \/ Local_VerifySignature
    \/ Local_LoopEnd
    \/ Local_Return
    \/ ListSignatures_NextPage
    \/ ListSignatures_Return
    \/ ListSignatures_CallbackReturned

Spec == Init /\ [][Next]_vars

-----------------------------------------------------------------------------
(* Reading the call history *)

CallsOf(op) == SelectSeq(calls, LAMBDA c : c.op = op)
NumCalls(op) == Len(CallsOf(op))

\* The signature manifests handed to FetchSignatureBlob / verifier.Verify, in
\* call order.
Fetched == [i \in 1..NumCalls("FetchSignatureBlob") |-> CallsOf("FetchSignatureBlob")[i].sig]
Verified == [i \in 1..NumCalls("Verify") |-> CallsOf("Verify")[i].sig]

\* The number of FetchSignatureBlob calls among the first j calls.
FetchedBefore(j) ==
    Cardinality({i \in 1..j : calls[i].op = "FetchSignatureBlob"})

IsPrefix(a, b) == Len(a) <= Len(b) /\ \A i \in 1..Len(a) : a[i] = b[i]

SkipReported == \E j \in 1..Len(calls) : calls[j].op = "SkipVerify" /\ calls[j].res = "skip"

SoftFailures == {"failed", "failedUserMetadata"}

\* The limit as a count: a flow given a non-positive limit processes nothing.
AttemptsAllowed == IF MaxSignatureAttempts > 0 THEN MaxSignatureAttempts ELSE 0

-----------------------------------------------------------------------------
\* C1: in one call of Verify or VerifyLocalContent, whatever pages
\* ListSignatures delivers, FetchSignatureBlob and verifier.Verify are each
\* called at most MaxSignatureAttempts times; when the processed count has
\* reached MaxSignatureAttempts without a success the callback returns an
\* error, and no page is handed to the callback once the limit is reached.
C1_AttemptsBounded ==
    /\ NumCalls("FetchSignatureBlob") <= AttemptsAllowed
    /\ NumCalls("Verify") <= AttemptsAllowed
    /\ (pc = "callbackReturned"
            /\ numOfSignatureProcessed >= MaxSignatureAttempts
            /\ verificationOutcomes = <<>>) => cbErr # NoError
    /\ \A j \in 1..Len(calls) :
            calls[j].op = "fn" => FetchedBefore(j) < MaxSignatureAttempts

\* More referrers than the limit: the limit's worth were fetched, the rest not.
C1_Witness ==
    /\ pc = "done"
    /\ MaxSignatureAttempts > 0
    /\ Len(delivered) > MaxSignatureAttempts
    /\ NumCalls("FetchSignatureBlob") = MaxSignatureAttempts
    /\ NumCalls("Verify") = MaxSignatureAttempts
    /\ pagesDelivered < MaxPages
    /\ retErr = errExceededMaxVerificationLimit

\* C2: first-success short-circuit.  When the k-th delivered signature is the
\* first that verifier.Verify accepts, exactly k signatures are fetched and
\* verified, the callback returns the done sentinel, nothing is fetched,
\* verified or delivered after it, and the flow returns a nil error.
C2_FirstSuccessShortCircuit ==
    \A j \in 1..Len(calls) :
        (calls[j].op = "Verify" /\ calls[j].res = "verified") =>
            /\ calls[j].sig <= MaxSignatureAttempts
            /\ j = Len(calls)
            /\ NumCalls("FetchSignatureBlob") = calls[j].sig
            /\ NumCalls("Verify") = calls[j].sig
            /\ \A i \in 1..(j - 1) :
                    /\ calls[i].op = "FetchSignatureBlob" => calls[i].res = "ok"
                    /\ calls[i].op = "Verify" => calls[i].res \in SoftFailures
            /\ cbErr = errDoneVerification
            /\ pc \in {"callbackReturned", "after", "done"}
            /\ pc = "done" => retErr = NoError

\* Three signatures delivered, only the second verifies: two are processed.
C2_Witness ==
    /\ pc = "done"
    /\ Len(delivered) = 3
    /\ Len(CallsOf("Verify")) = 2
    /\ CallsOf("Verify")[1].res = "failed"
    /\ CallsOf("Verify")[2].res = "verified"
    /\ Fetched = <<1, 2>>
    /\ retErr = NoError

\* C3: no false success.  A nil error is returned only after SkipVerify
\* reported skip or after verifier.Verify accepted a processed signature; in
\* the second case the descriptor returned is the one Resolve returned and the
\* outcomes are exactly that signature's outcome.  Every error return carries
\* the zero descriptor.
C3_NoFalseSuccess ==
    pc = "done" =>
        /\ retErr = NoError =>
            \/ SkipReported
            \/ \E j \in 1..Len(calls) :
                /\ calls[j].op = "Verify" /\ calls[j].res = "verified"
                /\ \E i \in 1..j : calls[i].op = "Resolve" /\ calls[i].res = retDesc
                /\ retDesc \in Descriptors
                /\ retOutcomes = <<VerifierOutcome(calls[j].sig, NoError)>>
        /\ retErr # NoError => retDesc = ZeroDescriptor

\* A success on the second signature of a call that did not skip.
C3_Witness ==
    /\ pc = "done"
    /\ retErr = NoError
    /\ ~SkipReported
    /\ retDesc = "sha256:bbb"
    /\ retOutcomes = <<VerifierOutcome(2, NoError)>>

\* The signatures whose outcome carried ErrorUserMetadataVerificationFailed.
UserMetadataFailures ==
    {calls[j].sig : j \in {i \in 1..Len(calls) :
        calls[i].op = "Verify" /\ calls[i].res = "failedUserMetadata"}}

Largest(S) == CHOOSE x \in S : \A y \in S : y <= x

\* No call of the iteration ended it: every fetch succeeded, every failed
\* verification came with an outcome, and ListSignatures had no error of its own.
NoFatalError ==
    /\ \A j \in 1..Len(calls) :
        /\ calls[j].op = "FetchSignatureBlob" => calls[j].res = "ok"
        /\ calls[j].op = "Verify" => calls[j].res # "nilOutcome"
    /\ err # errReferrers

\* C4 as claimed: whenever at least one signature was processed, none
\* verified and a failed outcome carried the user-metadata error, the flow
\* returns that error, for every MaxSignatureAttempts > 0 and every number of
\* signatures.
C4_UserMetadataAlwaysPreferred ==
    (/\ pc = "done"
     /\ NumCalls("Verify") >= 1
     /\ NoFatalError
     /\ \A j \in 1..Len(calls) : calls[j].op = "Verify" => calls[j].res \in SoftFailures
     /\ UserMetadataFailures # {})
        => retErr.type = "ErrorUserMetadataVerificationFailed"

\* C4 (amended): when ListSignatures returns nil, so that the iteration ended
\* below the limit and without a fatal error, and at least one failed outcome
\* carried the user-metadata error, the flow returns the user-metadata error
\* of the last such outcome, with the zero descriptor and no outcome.
C4_UserMetadataPreferredBelowLimit ==
    (/\ pc = "done"
     /\ NumCalls("ListSignatures") = 1
     /\ err = NoError
     /\ UserMetadataFailures # {})
        => /\ numOfSignatureProcessed < MaxSignatureAttempts
           /\ retErr = errUserMetadata(Largest(UserMetadataFailures))
           /\ retDesc = ZeroDescriptor
           /\ retOutcomes = <<>>

\* Two user-metadata failures below the limit: the later one is returned.
C4_Witness ==
    /\ pc = "done"
    /\ NumCalls("Verify") = 2
    /\ CallsOf("Verify")[1].res = "failedUserMetadata"
    /\ CallsOf("Verify")[2].res = "failedUserMetadata"
    /\ err = NoError
    /\ retErr = errUserMetadata(2)

\* C5: when ListSignatures delivers no signature manifest (no page, or only
\* empty pages) and returns nil, the flow fails with the "no signature is
\* associated" retrieval error, returns no outcome, and neither
\* FetchSignatureBlob nor verifier.Verify is called.
C5_NoSignature ==
    (/\ pc = "done"
     /\ NumCalls("ListSignatures") = 1
     /\ err = NoError
     /\ delivered = <<>>)
        => /\ retErr = errNoSignature
           /\ retOutcomes = <<>>
           /\ retDesc = ZeroDescriptor
           /\ NumCalls("FetchSignatureBlob") = 0
           /\ NumCalls("Verify") = 0

\* Only empty pages were delivered.
C5_Witness ==
    /\ pc = "done"
    /\ pagesDelivered = MaxPages
    /\ delivered = <<>>
    /\ err = NoError
    /\ retErr = errNoSignature

\* C6: once SkipVerify has reported skip without error, the flow has returned
\* a nil error and exactly one outcome in which only the verification level
\* is populated, and ListSignatures, FetchSignatureBlob and verifier.Verify
\* are never called.
C6_SkipReturnsLevelOnly ==
    SkipReported =>
        /\ pc = "done"
        /\ retErr = NoError
        /\ Len(retOutcomes) = 1
        /\ retOutcomes[1].VerificationLevel \in Levels
        /\ retOutcomes[1].RawSignature = 0
        /\ retOutcomes[1].EnvelopeContent = 0
        /\ retOutcomes[1].VerificationResults = <<>>
        /\ retOutcomes[1].Error = NoError
        /\ NumCalls("ListSignatures") = 0
        /\ NumCalls("FetchSignatureBlob") = 0
        /\ NumCalls("Verify") = 0

\* VerifyLocalContent skipped after resolving the target.
C6_Witness ==
    /\ flow = "VerifyLocalContent"
    /\ SkipReported
    /\ NumCalls("Resolve") = 1
    /\ retOutcomes = <<SkipOutcome("skip")>>

\* The calls of FetchSignatureBlob and verifier.Verify, in call order.
Processing == SelectSeq(calls, LAMBDA c : c.op \in {"FetchSignatureBlob", "Verify"})

\* C7: the signature manifests handed to FetchSignatureBlob form a prefix of
\* the concatenation of the delivered pages (nothing reordered, skipped or
\* repeated), and each signature is verified right after its own fetch and
\* before the next fetch.
C7_ProcessingOrder ==
    /\ IsPrefix(Fetched, delivered)
    /\ IsPrefix(Verified, Fetched)
    /\ \A j \in 1..Len(Processing) :
        /\ Processing[j].op = "Verify" =>
              /\ j > 1
              /\ Processing[j - 1].op = "FetchSignatureBlob"
              /\ Processing[j - 1].sig = Processing[j].sig
              /\ Processing[j - 1].res = "ok"
        /\ (Processing[j].op = "FetchSignatureBlob" /\ j > 1) =>
              Processing[j - 1].op = "Verify"

\* Two signatures of one page are processed, the first before the second.
C7_Witness ==
    /\ pc = "done"
    /\ Len(signatureManifests) = 2
    /\ Fetched = <<1, 2>>
    /\ Verified = <<1, 2>>

\* C8: a failed verification that comes with an outcome does not stop the
\* iteration: if fewer than MaxSignatureAttempts signatures have been
\* processed and a further signature is delivered (same page or a later
\* one), that signature is fetched, and verified if its fetch succeeds.
C8_FailureDoesNotStop ==
    pc = "done" =>
        \A j \in 1..Len(calls) :
            (/\ calls[j].op = "Verify"
             /\ calls[j].res \in SoftFailures
             /\ FetchedBefore(j) < MaxSignatureAttempts
             /\ Len(delivered) > FetchedBefore(j))
                => \E i \in (j + 1)..Len(calls) :
                    /\ calls[i].op = "FetchSignatureBlob"
                    /\ calls[i].sig = delivered[FetchedBefore(j) + 1]
                    /\ calls[i].res = "ok" =>
                          \E h \in (i + 1)..Len(calls) :
                              calls[h].op = "Verify" /\ calls[h].sig = calls[i].sig

\* The first signature fails, the next one arrives in a later page and is
\* fetched and verified.
C8_Witness ==
    /\ pc = "done"
    /\ pagesDelivered = 2
    /\ Len(signatureManifests) = 1
    /\ delivered = <<1, 2>>
    /\ Len(CallsOf("Verify")) = 2
    /\ CallsOf("Verify")[1].res = "failed"
    /\ CallsOf("Verify")[2].sig = 2

\* C9 as claimed: every call with MaxSignatureAttempts <= 0 returns an error,
\* whatever the trust policy level, and fetches and verifies nothing.
C9_NonPositiveLimitRejected ==
    (pc = "done" /\ MaxSignatureAttempts <= 0) =>
        /\ retErr # NoError
        /\ NumCalls("FetchSignatureBlob") = 0
        /\ NumCalls("Verify") = 0

\* C10: Verify on a repository that is not remote, and VerifyLocalContent on
\* a remote repository or with TargetAtLocal false, return an error without
\* any call of SkipVerify, Resolve, ListSignatures or FetchSignatureBlob.
C10_RepositoryModeCheck ==
    ((flow = "Verify" /\ ~repoIsRemote)
        \/ (flow = "VerifyLocalContent" /\ (repoIsRemote \/ ~TargetAtLocal)))
      => /\ calls = <<>>
         /\ pc \in {"checkRepo", "checkTarget", "checkMax", "done"}
         /\ pc = "done" => (retErr # NoError /\ retDesc = ZeroDescriptor /\ retOutcomes = <<>>)

\* VerifyLocalContent was given a remote repository and otherwise valid options.
C10_Witness ==
    /\ pc = "done"
    /\ flow = "VerifyLocalContent"
    /\ repoIsRemote /\ TargetAtLocal /\ MaxSignatureAttempts > 0
    /\ retErr = errRepoIsRemote
    /\ calls = <<>>

-----------------------------------------------------------------------------
(* notation.Sign and notation.SignLocalContent: inputs *)

\* Durations are counted in ticks; time.Second is TicksPerSecond ticks.
TicksPerSecond == 2
ExpiryDurations == (0 - 1)..(TicksPerSecond + 1)

SignFlows == {"Sign", "SignLocalContent"}

\* Artifact references: one that does not parse, one with neither tag nor
\* digest, one with a tag, one with a digest.
ArtifactReferences ==
    {"bad reference", "localhost/repo", "localhost/repo:v1", "localhost/repo@sha256:aaa"}

\* orasRegistry.ParseReference on these references.
ParseReference(artifactRef) ==
    CASE artifactRef = "localhost/repo" -> [err |-> NoError, Reference |-> ""]
      [] artifactRef = "localhost/repo:v1" -> [err |-> NoError, Reference |-> "v1"]
      [] artifactRef = "localhost/repo@sha256:aaa" -> [err |-> NoError, Reference |-> "sha256:aaa"]
      [] OTHER -> [err |-> errParse, Reference |-> ""]

HasPrefix(s, prefix) == Len(s) >= Len(prefix) /\ SubSeq(s, 1, Len(prefix)) = prefix

\* ref.ValidateReferenceAsDigest() == nil
IsDigestReference(ref) == HasPrefix(ref.Reference, "sha256:")

reservedAnnotationPrefixes == {"io.cncf.notary"}
annotationX509ChainThumbprint == "io.cncf.notary.x509chain.thumbprint#S256"

\* Keys of user metadata and of the given descriptor's annotations.
UserKeys == {"io.cncf.notary.custom", "buildId", "owner"}
GivenKeys == {"buildId"}

Keys(kv) == {p[1] : p \in kv}
HasKey(kv, k) == k \in Keys(kv)
MapOf(keys, v) == {<<k, v>> : k \in keys}

UserMetadatas == {MapOf(ks, "user") : ks \in SUBSET UserKeys}
GivenAnnotations ==
    {NoAnnotations} \cup {[ref |-> "given", kv |-> MapOf(ks, "given")] : ks \in SUBSET GivenKeys}

KeyIDs == {"mine", "other"}

\* Errors of the signing flows.
errCanceled == Error("context.Canceled", "context canceled", 0)
errExpiryNegative == Error("errorString", "expiry duration cannot be a negative value", 0)
errExpiryGranularity ==
    Error("errorString", "expiry duration supports minimum granularity of seconds", 0)
errMissingDigestOrTag == Error("errorString", "reference is missing digest or tag", 0)
errRepoNil == Error("errorString", "repo cannot be nil", 0)
errReservedPrefix(k) ==
    Error("errorString",
          "error adding user metadata: metadata key " \o k \o " has reserved prefix", 0)
errAlreadyPresent(k) ==
    Error("errorString",
          "error adding user metadata: metadata key " \o k
              \o " is already present in the target artifact", 0)

\* ErrorSignLocalContent{Msg: err.Error()}, ErrorPushSignatureFailed{Msg: err.Error()}
ErrorSignLocalContent(e) == Error("ErrorSignLocalContent", e.msg, 0)
ErrorPushSignatureFailed(e) == Error("ErrorPushSignatureFailed", e.msg, 0)

\* fmt.Errorf(prefix + ": %w", err): the chain still holds err.
Wrap(prefix, e) == [e EXCEPT !.msg = prefix \o ": " \o e.msg]

SignCall(op, arg, res) == [op |-> op, arg |-> arg, res |-> res]

\* The annotations a descriptor refers to.
AnnotationsOf(desc, maps) ==
    IF desc.annotations = "nil" THEN {} ELSE maps[desc.annotations]

SignReturn(d, s, a, e) ==
    /\ signRet' = [desc |-> d, sig |-> s, annotations |-> a, err |-> e]
    /\ spc' = "done"

SignFail(e) == SignReturn(Descriptor(ZeroDescriptor, "nil"), NilEnvelope, NoAnnotations, e)

signInputs == <<signFlow, ExpiryDuration, ArtifactReference, repoIsNil, UserMetadata, KeyID>>
pluginState == <<key, signing, resp, sig>>

SignInit ==
    /\ signFlow \in SignFlows
    /\ ExpiryDuration \in ExpiryDurations
    /\ ArtifactReference \in
         IF signFlow = "Sign" THEN ArtifactReferences ELSE {""}   \* LocalSignOptions has no reference
    /\ repoIsNil \in IF signFlow = "Sign" THEN BOOLEAN ELSE {TRUE}   \* SignLocalContent takes no repo
    /\ UserMetadata \in UserMetadatas
    /\ KeyID \in KeyIDs
    /\ spc = "validate"
    /\ givenAnnotations \in IF signFlow = "Sign" THEN {NoAnnotations} ELSE GivenAnnotations
    /\ annotationMaps = [given |-> givenAnnotations.kv, fresh |-> {}]
    /\ targetDesc \in
         IF signFlow = "Sign"
         THEN {Descriptor(ZeroDescriptor, "nil")}
         ELSE {Descriptor(d, givenAnnotations.ref) : d \in Descriptors}
    /\ warned = FALSE
    /\ key = NoResponse
    /\ signing = ""
    /\ resp = NoResponse
    /\ sig = NoSignature
    /\ signRet = NoSignResult
    /\ signCalls = <<>>

\* No verification flow is running.
VerifyIdle ==
    /\ flow = "none"
    /\ repoIsRemote = FALSE
    /\ TargetAtLocal = FALSE
    /\ MaxSignatureAttempts = 0
    /\ listedAt = 0
    /\ first = NoRun
    /\ pc = "idle"
    /\ artifactDescriptor = ZeroDescriptor
    /\ numOfSignatureProcessed = 0
    /\ verificationOutcomes = <<>>
    /\ verificationFailedErr = NoError
    /\ signatureManifests = <<>>
    /\ idx = 0
    /\ cbErr = NoError
    /\ err = NoError
    /\ delivered = <<>>
    /\ pagesDelivered = 0
    /\ retDesc = ZeroDescriptor
    /\ retOutcomes = <<>>
    /\ retErr = NoError
    /\ calls = <<>>

-----------------------------------------------------------------------------
(* Input validation *)

\* The remainder of Go's % operator, which truncates towards zero.
Rem(a, b) == IF a >= 0 THEN a % b ELSE 0 - ((0 - a) % b)

\* The two expiry checks that open both flows.
ExpiryCheck_NoGranularity(d) ==
    IF d < 0 THEN errExpiryNegative ELSE NoError

ExpiryCheck(d) ==
    IF d < 0 THEN errExpiryNegative
    ELSE IF Rem(d, TicksPerSecond) # 0 THEN errExpiryGranularity
    ELSE NoError

\* Sign, up to the call of repo.Resolve: the first check that fails.
SignValidation(d, artifactRef, repoNil) ==
    IF ExpiryCheck(d) # NoError THEN ExpiryCheck(d)
    ELSE IF ParseReference(artifactRef).err # NoError THEN ParseReference(artifactRef).err
    ELSE IF ParseReference(artifactRef).Reference = "" THEN errMissingDigestOrTag
    ELSE IF repoNil THEN errRepoNil
    ELSE NoError

Sign_Validate ==
    /\ signFlow = "Sign"
    /\ spc = "validate"
    /\ LET e == SignValidation(ExpiryDuration, ArtifactReference, repoIsNil) IN
         IF e # NoError THEN SignFail(e)
         ELSE /\ spc' = "resolve"
              /\ UNCHANGED signRet
    /\ UNCHANGED <<verifyVars, configVars, storeVars, registryVars, signInputs, givenAnnotations, annotationMaps,
                   targetDesc, warned, pluginState, signCalls>>

SignLocal_Validate ==
    /\ signFlow = "SignLocalContent"
    /\ spc = "validate"
    /\ LET e == ExpiryCheck(ExpiryDuration) IN
         IF e # NoError THEN SignFail(ErrorSignLocalContent(e))
         ELSE /\ spc' = "addUserMetadata"
              /\ UNCHANGED signRet
    /\ UNCHANGED <<verifyVars, configVars, storeVars, registryVars, signInputs, givenAnnotations, annotationMaps,
                   targetDesc, warned, pluginState, signCalls>>

\* repo.Resolve and the warning about tag references.
ShouldWarn_Never(ref) == FALSE

ShouldWarn(ref) == ~IsDigestReference(ref)

Sign_Resolve ==
    /\ signFlow = "Sign"
    /\ spc = "resolve"
    /\ \/ \E e \in {errResolve, errCanceled} :
            /\ signCalls' = Append(signCalls,
                   SignCall("Resolve", ArtifactReference, [digest |-> ZeroDescriptor, err |-> e]))
            /\ SignFail(e)
            /\ UNCHANGED <<givenAnnotations, annotationMaps, targetDesc, warned>>
       \/ \E d \in Descriptors, a \in GivenAnnotations :
            /\ signCalls' = Append(signCalls,
                   SignCall("Resolve", ArtifactReference, [digest |-> d, err |-> NoError]))
            /\ givenAnnotations' = a
            /\ annotationMaps' = [given |-> a.kv, fresh |-> {}]
            /\ targetDesc' = Descriptor(d, a.ref)
            /\ warned' = ShouldWarn(ParseReference(ArtifactReference))
            /\ spc' = "addUserMetadata"
            /\ UNCHANGED signRet
    /\ UNCHANGED <<verifyVars, configVars, storeVars, registryVars, signInputs, pluginState>>

-----------------------------------------------------------------------------
(* addUserMetadataToDescriptor *)

\* The orders in which a range loop may visit the keys of a map.
Orders(keys) ==
    {o \in [1..Cardinality(keys) -> keys] : \A i, j \in 1..Cardinality(keys) : o[i] = o[j] => i = j}

ValueOf(kv, k) == (CHOOSE p \in kv : p[1] = k)[2]

IsReserved_ExactMatch(k) == k \in reservedAnnotationPrefixes

IsReserved(k) == \E reservedPrefix \in reservedAnnotationPrefixes : HasPrefix(k, reservedPrefix)

\* The range loop over userMetadata, visiting the keys in the given order:
\* the map as the loop leaves it, and the error it returns.
RECURSIVE AddEntries_NoCollisionCheck(_, _, _)
AddEntries_NoCollisionCheck(kv, userMetadata, order) ==
    IF order = <<>> THEN [kv |-> kv, err |-> NoError]
    ELSE LET k == Head(order) IN
         IF IsReserved(k) THEN [kv |-> kv, err |-> errReservedPrefix(k)]
         ELSE AddEntries_NoCollisionCheck(
                  {p \in kv : p[1] # k} \cup {<<k, ValueOf(userMetadata, k)>>},
                  userMetadata, Tail(order))

RECURSIVE AddEntries(_, _, _)
AddEntries(kv, userMetadata, order) ==
    IF order = <<>> THEN [kv |-> kv, err |-> NoError]
    ELSE LET k == Head(order) IN
         IF IsReserved(k) THEN [kv |-> kv, err |-> errReservedPrefix(k)]
         ELSE IF HasKey(kv, k) THEN [kv |-> kv, err |-> errAlreadyPresent(k)]
         ELSE AddEntries(kv \cup {<<k, ValueOf(userMetadata, k)>>}, userMetadata, Tail(order))

\* desc.Annotations after the nil check: a nil map is replaced by a fresh one
\* when there is user metadata, any other map is written in place.
MapWritten(desc, userMetadata) ==
    IF desc.annotations = "nil" /\ userMetadata # {} THEN "fresh" ELSE desc.annotations

addUserMetadataToDescriptor(f, next) ==
    /\ spc = "addUserMetadata"
    /\ \E order \in Orders(Keys(UserMetadata)) :
         LET ref == MapWritten(targetDesc, UserMetadata)
             r == AddEntries(AnnotationsOf(targetDesc, annotationMaps), UserMetadata, order)
         IN /\ annotationMaps' =
                 IF ref = "nil" THEN annotationMaps ELSE [annotationMaps EXCEPT ![ref] = r.kv]
            /\ IF r.err # NoError
               THEN /\ SignFail(IF f = "SignLocalContent" THEN ErrorSignLocalContent(r.err) ELSE r.err)
                    /\ UNCHANGED targetDesc
               ELSE /\ targetDesc' = Descriptor(targetDesc.digest, ref)
                    /\ spc' = next
                    /\ UNCHANGED signRet
    /\ UNCHANGED <<verifyVars, configVars, storeVars, registryVars, signInputs, givenAnnotations, warned,
                   pluginState, signCalls>>

Sign_AddUserMetadata ==
    /\ signFlow = "Sign"
    /\ addUserMetadataToDescriptor("Sign", "signer")

SignLocal_AddUserMetadata ==
    /\ signFlow = "SignLocalContent"
    /\ addUserMetadataToDescriptor("SignLocalContent", "signer")

\* The call of signer.Sign: the descriptor is passed by value, its map by
\* reference; the history keeps the annotations as they are at the call.
CallSigner ==
    /\ spc = "signer"
    /\ signCalls' = Append(signCalls,
           SignCall("signer.Sign",
                    [digest |-> targetDesc.digest,
                     annotations |-> AnnotationsOf(targetDesc, annotationMaps)],
                    "called"))
    /\ spc' = "getMetadata"
    /\ UNCHANGED <<verifyVars, configVars, storeVars, registryVars, signInputs, givenAnnotations, annotationMaps,
                   targetDesc, warned, pluginState, signRet>>

-----------------------------------------------------------------------------
(* jws.PluginSigner *)

MaxChainLen == 2   \* longest certificate chain a plugin answers with

Capabilities == {"SIGNATURE_GENERATOR", "SIGNATURE_ENVELOPE_GENERATOR"}

KeySpecs == {"RSA_2048", "RSA_3072", "unsupported"}
SigningAlgorithms == {"RSASSA_PSS_SHA_256", "RSASSA_PSS_SHA_384", "unsupported"}

\* key.KeySpec.SignatureAlgorithm(); "" when the key spec is not supported.
SignatureAlgorithm(keySpec) ==
    CASE keySpec = "RSA_2048" -> "RSASSA_PSS_SHA_256"
      [] keySpec = "RSA_3072" -> "RSASSA_PSS_SHA_384"
      [] OTHER -> ""

\* alg.JWS(); "" when the algorithm is not supported.
JWS(alg) ==
    CASE alg = "RSASSA_PSS_SHA_256" -> "PS256"
      [] alg = "RSASSA_PSS_SHA_384" -> "PS384"
      [] OTHER -> ""

\* alg.Hash()
Hash(alg) ==
    CASE alg = "RSASSA_PSS_SHA_256" -> "SHA_256"
      [] alg = "RSASSA_PSS_SHA_384" -> "SHA_384"
      [] OTHER -> ""

\* Certificates in DER form, as a plugin sends them.
Certificate(raw, parses, pk, codeSigning) ==
    [raw |-> raw, parses |-> parses, publicKey |-> pk, codeSigning |-> codeSigning]

PublicKeys == {"pkA", "pkB"}
Garbage == Certificate("garbage", FALSE, "", FALSE)
LeafCertificates ==
    {Certificate("leafA", TRUE, "pkA", TRUE), Certificate("leafA-noEKU", TRUE, "pkA", FALSE),
     Certificate("leafB", TRUE, "pkB", TRUE), Garbage}
CACertificates == {Certificate("ca", TRUE, "pkCA", FALSE), Garbage}

CertificateChains ==
    {<<>>} \cup
    {c \in UNION {[1..n -> LeafCertificates \cup CACertificates] : n \in 1..MaxChainLen} :
        /\ c[1] \in LeafCertificates
        /\ \A i \in 2..Len(c) : c[i] \in CACertificates}

\* parseCertChain: nil error exactly when every certificate parses.
parseCertChain(certChain) ==
    IF \A i \in 1..Len(certChain) : certChain[i].parses
    THEN [certs |-> certChain, err |-> NoError]
    ELSE [certs |-> <<>>, err |-> Error("x509Error", "malformed certificate", 0)]

\* The signing input: the protected header and the payload, both encoded.
SigningString(alg, desc, expiry) ==
    [header |-> [alg |-> alg], payload |-> [subject |-> desc, expiry |-> expiry]]

Tampered(s) == [s EXCEPT !.payload.expiry = s.payload.expiry + 1]

\* A signature: the private key and method that made it, and what it signs.
\* The keys are RSA keys, which sign with either RSASSA-PSS method.
Signature(k, method, over) == [by |-> k, method |-> method, over |-> over]

Signatures(s) ==
    {Signature("pkA", m, o) : m \in {"PS256", "PS384"}, o \in {s, Tampered(s)}}

\* verifyJWT: method.Verify(payload, sig, signingCert.PublicKey) == nil
verifyJWT_AnyKey(sigAlg, payload, sg, signingCert) ==
    /\ sg.method = sigAlg
    /\ sg.over = payload

verifyJWT(sigAlg, payload, sg, signingCert) ==
    /\ sg.method = sigAlg
    /\ sg.over = payload
    /\ sg.by = signingCert.publicKey

\* verifyCertExtKeyUsage(cert, x509.ExtKeyUsageCodeSigning) == nil
verifyCertExtKeyUsage(cert) == cert.codeSigning

\* Errors of the runner and of the signer.
errRunner == Error("pluginError", "plugin failed", 0)
RunnerErrors == {errRunner, errCanceled}
errResponseType(cmd) ==
    Error("errorString", "plugin runner returned incorrect " \o cmd \o " response type", 0)
errInvalidMetadata == Error("errorString", "invalid plugin metadata", 0)
errNoCapability == Error("errorString", "plugin does not have signing capabilities", 0)
errNotImplemented == Error("errorString", "not implemented", 0)
errKeyIDMismatch == Error("errorString", "keyID mismatch", 0)
errKeySpec == Error("errorString", "keySpec not supported", 0)
errPayload == Error("errorString", "invalid payload", 0)
errMarshal == Error("errorString", "failed to marshal signing payload", 0)
errSigningAlgorithm == Error("errorString", "signing algorithm not supported", 0)
errEmptyChain == Error("errorString", "empty certificate chain", 0)
errVerification == Error("errorString", "verification error", 0)
errExtKeyUsage ==
    Error("errorString", "signing certificate does not meet the minimum requirements", 0)
errEnvelope == Error("errorString", "jwtEnvelope", 0)

\* What the runner may hand back for each command.
RunnerFailures == {[type |-> "error", err |-> e] : e \in RunnerErrors}
WrongType == [type |-> "wrongType"]

MetadataAnswers ==
    RunnerFailures \cup {WrongType} \cup
    {[type |-> "Metadata", valid |-> v, capabilities |-> c] :
        v \in BOOLEAN, c \in SUBSET Capabilities}

DescribeKeyAnswers ==
    RunnerFailures \cup {WrongType} \cup
    {[type |-> "DescribeKeyResponse", keyID |-> k, keySpec |-> s] :
        k \in KeyIDs, s \in KeySpecs}

GenerateSignatureAnswers(s) ==
    RunnerFailures \cup {WrongType} \cup
    {[type |-> "GenerateSignatureResponse", keyID |-> k, signingAlgorithm |-> a,
      signature |-> sg, certificateChain |-> c] :
        k \in KeyIDs, a \in SigningAlgorithms, sg \in Signatures(s), c \in CertificateChains}

\* PluginSigner.Sign returns to the signing flow.
SignerReturn(envelope, chain, e) ==
    /\ sig' = [envelope |-> envelope, chain |-> chain, err |-> e]
    /\ spc' = "signerReturned"

SignerFail(e) == SignerReturn(NilEnvelope, <<>>, e)

\* PluginSigner.Sign: get-plugin-metadata and the choice of the capability.
MetadataResult_NoCapabilityGate(out) ==
    IF out.type = "error" THEN Wrap("metadata command failed", out.err)
    ELSE IF out.type # "Metadata" THEN errResponseType("get-plugin-metadata")
    ELSE IF ~out.valid THEN errInvalidMetadata
    ELSE IF "SIGNATURE_ENVELOPE_GENERATOR" \in out.capabilities
            /\ "SIGNATURE_GENERATOR" \notin out.capabilities THEN errNotImplemented
    ELSE NoError

MetadataResult_TypeUnchecked(out) ==
    IF out.type = "error" THEN Wrap("metadata command failed", out.err)
    ELSE IF out.type # "Metadata" THEN NoError
    ELSE IF ~out.valid THEN errInvalidMetadata
    ELSE IF "SIGNATURE_GENERATOR" \in out.capabilities THEN NoError
    ELSE IF "SIGNATURE_ENVELOPE_GENERATOR" \in out.capabilities THEN errNotImplemented
    ELSE errNoCapability

MetadataResult(out) ==
    IF out.type = "error" THEN Wrap("metadata command failed", out.err)
    ELSE IF out.type # "Metadata" THEN errResponseType("get-plugin-metadata")
    ELSE IF ~out.valid THEN errInvalidMetadata
    ELSE IF "SIGNATURE_GENERATOR" \in out.capabilities THEN NoError
    ELSE IF "SIGNATURE_ENVELOPE_GENERATOR" \in out.capabilities THEN errNotImplemented
    ELSE errNoCapability

PluginSigner_Sign ==
    /\ spc = "getMetadata"
    /\ \E out \in MetadataAnswers :
         /\ signCalls' = Append(signCalls, SignCall("get-plugin-metadata", "nil", out))
         /\ IF MetadataResult(out) # NoError
            THEN /\ SignerFail(MetadataResult(out))
            ELSE /\ spc' = "describeKey"
                 /\ UNCHANGED sig
    /\ UNCHANGED <<verifyVars, configVars, storeVars, registryVars, signInputs, givenAnnotations, annotationMaps,
                   targetDesc, warned, key, signing, resp, signRet>>

\* generateSignature, up to the generate-signature request: describe-key, the
\* keyID check, the algorithm and the signing input.
DescribeKeyRequest == [contractVersion |-> "1", keyID |-> KeyID]

KeyCheck_NoKeyID(out, configured) ==
    IF out.type = "error" THEN Wrap("describe-key command failed", out.err)
    ELSE IF out.type # "DescribeKeyResponse" THEN errResponseType("describe-key")
    ELSE IF SignatureAlgorithm(out.keySpec) = "" THEN errKeySpec
    ELSE NoError

KeyCheck(out, configured) ==
    IF out.type = "error" THEN Wrap("describe-key command failed", out.err)
    ELSE IF out.type # "DescribeKeyResponse" THEN errResponseType("describe-key")
    ELSE IF configured # out.keyID THEN errKeyIDMismatch
    ELSE IF SignatureAlgorithm(out.keySpec) = "" THEN errKeySpec
    ELSE NoError

PluginSigner_describeKey ==
    /\ spc = "describeKey"
    /\ \E out \in DescribeKeyAnswers, payload \in {NoError, errPayload, errMarshal} :
         /\ signCalls' = Append(signCalls, SignCall("describe-key", DescribeKeyRequest, out))
         /\ IF KeyCheck(out, KeyID) # NoError
            THEN /\ SignerFail(KeyCheck(out, KeyID))
                 /\ UNCHANGED <<key, signing>>
            ELSE /\ key' = out
                 /\ IF payload # NoError
                    THEN /\ SignerFail(payload)
                         /\ UNCHANGED signing
                    ELSE /\ signing' =
                              SigningString(JWS(SignatureAlgorithm(out.keySpec)),
                                            [digest |-> targetDesc.digest,
                                             annotations |->
                                                 AnnotationsOf(targetDesc, annotationMaps)],
                                            ExpiryDuration)
                         /\ spc' = "generateSignature"
                         /\ UNCHANGED sig
    /\ UNCHANGED <<verifyVars, configVars, storeVars, registryVars, signInputs, givenAnnotations, annotationMaps,
                   targetDesc, warned, resp, signRet>>

\* generateSignature, from the generate-signature request on.
GenerateSignatureRequest ==
    [contractVersion |-> "1", keyID |-> KeyID, keySpec |-> key.keySpec,
     hash |-> Hash(SignatureAlgorithm(key.keySpec)), payload |-> signing]

\* The checks made on the response, in the order of the code.
ResponseCheck(out, configured, sent) ==
    IF out.type = "error" THEN Wrap("generate-signature command failed", out.err)
    ELSE IF out.type # "GenerateSignatureResponse" THEN errResponseType("generate-signature")
    ELSE IF configured # out.keyID THEN errKeyIDMismatch
    ELSE IF JWS(out.signingAlgorithm) = "" THEN errSigningAlgorithm
    ELSE IF Len(out.certificateChain) = 0 THEN errEmptyChain
    ELSE IF parseCertChain(out.certificateChain).err # NoError
         THEN parseCertChain(out.certificateChain).err
    ELSE IF ~verifyJWT(JWS(out.signingAlgorithm), sent, out.signature,
                       parseCertChain(out.certificateChain).certs[1])
         THEN errVerification
    ELSE IF ~verifyCertExtKeyUsage(parseCertChain(out.certificateChain).certs[1])
         THEN errExtKeyUsage
    ELSE NoError

\* jwtEnvelope(ctx, opts, signing+"."+signed64Url, resp.CertificateChain)
jwtEnvelope(compact, certChain) == [compact |-> compact, x5c |-> certChain]

PluginSigner_generateSignature ==
    /\ spc = "generateSignature"
    /\ \E out \in GenerateSignatureAnswers(signing), envelope \in {NoError, errEnvelope} :
         /\ signCalls' = Append(signCalls,
                SignCall("generate-signature", GenerateSignatureRequest, out))
         /\ resp' = out
         /\ IF ResponseCheck(out, KeyID, signing) # NoError
            THEN SignerFail(ResponseCheck(out, KeyID, signing))
            ELSE IF envelope # NoError
            THEN SignerFail(envelope)
            ELSE SignerReturn(jwtEnvelope(<<signing, out.signature>>, out.certificateChain),
                              parseCertChain(out.certificateChain).certs, NoError)
    /\ UNCHANGED <<verifyVars, configVars, storeVars, registryVars, signInputs, givenAnnotations, annotationMaps,
                   targetDesc, warned, key, signing, signRet>>

-----------------------------------------------------------------------------
(* registry.repositoryClient and the older registry.RepositoryClient *)

maxBlobSizeLimit == 33554432      \* 32 MiB
maxManifestSizeLimit == 4194304   \* 4 MiB

MaxBlobs == 2   \* most blobs or layers a fetched manifest lists

ArtifactTypeNotation == "application/vnd.cncf.notary.signature"
MediaTypeArtifactManifest == "application/vnd.oci.artifact.manifest.v1+json"
MediaTypeImageManifest == "application/vnd.oci.image.manifest.v1+json"
SignatureMediaTypes == {"application/jose+json", "application/cose"}

RegistryOps ==
    {"FetchSignatureBlob", "PushSignature", "GetBlob", "getArtifactManifest",
     "PutSignatureManifest"}

\* digest.FromBytes
DigestOf(content) == <<"sha256", content>>

\* Descriptor of a pushed blob or manifest: media type and digest.
PushedDescriptor(mediaType, content) == [mediaType |-> mediaType, digest |-> DigestOf(content)]

\* Errors of the remote registry.
errRegistry == Error("registryError", "remote", 0)
RegistryErrors == {errRegistry, errCanceled}
errBlobCount == Error("errorString", "signature manifest requries exactly one signature envelope blob", 0)
errBlobTooLarge == Error("errorString", "signature blob too large", 0)
errManifestTooLarge == Error("errorString", "signature manifest too large", 0)
errMediaType == Error("errorString", "sigManifestDesc.MediaType requires", 0)
errUnmarshal == Error("jsonError", "json.Unmarshal", 0)

\* One request sent to the registry, and its answer.
RegCall(op, arg, res) == [op |-> op, arg |-> arg, res |-> res]
Failed(e) == [err |-> e]
Answered(content) == [err |-> NoError, content |-> content]

RegistryReturn(bytes, desc, manifest, e) ==
    /\ regRet' = [bytes |-> bytes, desc |-> desc, manifest |-> manifest, err |-> e]
    /\ rpc' = "returned"

\* SignatureManifest{} and SignatureManifest{Blob: ..., Annotations: ...}
SignatureManifest(blob, annotations) == [Blob |-> blob, Annotations |-> annotations]

\* What a failed operation returns beside the error.
RegistryFail(op, e) ==
    RegistryReturn("nil", EmptyDescriptor,
                   IF op = "PutSignatureManifest"
                   THEN SignatureManifest(EmptyDescriptor, NoAnnotations)
                   ELSE EmptyDescriptor,
                   e)

-----------------------------------------------------------------------------
(* PushSignature / PutSignatureManifest *)

\* The manifest oras.Pack builds and pushes.
Pack(artifactType, blobList, subject, annotations, packImageManifest) ==
    IF packImageManifest
    THEN [mediaType |-> MediaTypeImageManifest, artifactType |-> artifactType,
          subject |-> subject, annotations |-> annotations,
          blobs |-> <<>>, layers |-> blobList]
    ELSE [mediaType |-> MediaTypeArtifactManifest, artifactType |-> artifactType,
          subject |-> subject, annotations |-> annotations,
          blobs |-> blobList, layers |-> <<>>]

\* The arguments oras.Pack is given by uploadSignatureManifest.
SignatureManifestOf_NoSubject(args, uploaded) ==
    Pack(ArtifactTypeNotation, <<uploaded>>, EmptyDescriptor, args.annotations,
         args.ociImageManifest)

SignatureManifestOf(args, uploaded) ==
    Pack(ArtifactTypeNotation, <<uploaded>>, args.subject, args.annotations,
         args.ociImageManifest)

\* Step 1: the envelope blob is uploaded.
UploadBlob(op) ==
    /\ regOp = op
    /\ rpc = "uploadBlob"
    /\ \/ \E e \in RegistryErrors :
            /\ regCalls' = Append(regCalls, RegCall("push blob", regArgs.blob, Failed(e)))
            /\ RegistryFail(op, e)
            /\ UNCHANGED <<blobs, blobDesc>>
       \/ /\ regCalls' = Append(regCalls, RegCall("push blob", regArgs.blob, Answered("created")))
          /\ blobDesc' = PushedDescriptor(regArgs.mediaType, regArgs.blob)
          /\ blobs' = blobs \cup {blobDesc'}
          /\ rpc' = "uploadManifest"
          /\ UNCHANGED regRet
    /\ UNCHANGED <<verifyVars, configVars, storeVars, signVars, regOp, regArgs, manifests>>

\* Step 2: the signature manifest is packed and uploaded.
UploadManifest(op) ==
    /\ regOp = op
    /\ rpc = "uploadManifest"
    /\ LET m == SignatureManifestOf(regArgs, blobDesc) IN
         \/ \E e \in RegistryErrors :
              /\ regCalls' = Append(regCalls, RegCall("push manifest", m, Failed(e)))
              /\ RegistryFail(op, e)
              /\ UNCHANGED manifests
         \/ /\ regCalls' = Append(regCalls, RegCall("push manifest", m, Answered("created")))
            /\ manifests' = manifests \cup {m}
            /\ IF op = "PutSignatureManifest"
               THEN RegistryReturn("nil", PushedDescriptor(m.mediaType, m),
                                   SignatureManifest(blobDesc, regArgs.annotations), NoError)
               ELSE RegistryReturn("nil", blobDesc, PushedDescriptor(m.mediaType, m), NoError)
    /\ UNCHANGED <<verifyVars, configVars, storeVars, signVars, regOp, regArgs, blobs, blobDesc>>

PushSignature_PushBytes == UploadBlob("PushSignature")
PushSignature_uploadSignatureManifest == UploadManifest("PushSignature")
PutSignatureManifest_uploadSignature == UploadBlob("PutSignatureManifest")
PutSignatureManifest_uploadSignatureManifest == UploadManifest("PutSignatureManifest")

-----------------------------------------------------------------------------
(* FetchSignatureBlob, GetBlob, getArtifactManifest *)

ManifestMediaTypes ==
    {MediaTypeArtifactManifest, MediaTypeImageManifest, "application/vnd.docker.manifest"}

ManifestSizes == {maxManifestSizeLimit - 1, maxManifestSizeLimit, maxManifestSizeLimit + 1}
BlobSizes == {maxBlobSizeLimit - 1, maxBlobSizeLimit, maxBlobSizeLimit + 1}

OCIDescriptor(mediaType, dgst, size) == [mediaType |-> mediaType, digest |-> dgst, size |-> size]

ManifestDescriptors ==
    {OCIDescriptor(mt, DigestOf("manifest"), sz) : mt \in ManifestMediaTypes, sz \in ManifestSizes}
BlobDescriptors ==
    {OCIDescriptor("application/jose+json", DigestOf("envelope"), sz) : sz \in BlobSizes}
BlobLists == UNION {[1..n -> BlobDescriptors] : n \in 0..MaxBlobs}

\* The manifests a registry may serve: JSON that decodes to a manifest with
\* blobs and layers, or JSON that does not decode.
ManifestJSONs ==
    {[decodes |-> FALSE, blobs |-> <<>>, layers |-> <<>>]} \cup
    {[decodes |-> TRUE, blobs |-> b, layers |-> l] : b \in BlobLists, l \in BlobLists}

ExceedsLimit_Inclusive(size, limit) == size >= limit

ExceedsLimit(size, limit) == size > limit

\* getSignatureBlobsDesc after the manifest was fetched: the blobs the
\* manifest lists, by media type.
DecodeBlobs_LayersOnly(mediaType, manifestJSON) ==
    IF mediaType \in {MediaTypeArtifactManifest, MediaTypeImageManifest}
    THEN IF manifestJSON.decodes
         THEN [blobs |-> manifestJSON.layers, err |-> NoError]
         ELSE [blobs |-> <<>>, err |-> errUnmarshal]
    ELSE [blobs |-> <<>>, err |-> errMediaType]

DecodeBlobs(mediaType, manifestJSON) ==
    IF mediaType = MediaTypeArtifactManifest
    THEN IF manifestJSON.decodes
         THEN [blobs |-> manifestJSON.blobs, err |-> NoError]
         ELSE [blobs |-> <<>>, err |-> errUnmarshal]
    ELSE IF mediaType = MediaTypeImageManifest
    THEN IF manifestJSON.decodes
         THEN [blobs |-> manifestJSON.layers, err |-> NoError]
         ELSE [blobs |-> <<>>, err |-> errUnmarshal]
    ELSE [blobs |-> <<>>, err |-> errMediaType]

\* FetchSignatureBlob between the manifest fetch and the blob fetch.
SelectBlob(signatureBlobs) ==
    IF Len(signatureBlobs) # 1 THEN [desc |-> EmptyDescriptor, err |-> errBlobCount]
    ELSE IF ExceedsLimit(signatureBlobs[1].size, maxBlobSizeLimit)
    THEN [desc |-> EmptyDescriptor, err |-> errBlobTooLarge]
    ELSE [desc |-> signatureBlobs[1], err |-> NoError]

\* FetchSignatureBlob up to the blob fetch: getSignatureBlobsDesc, the count
\* check and the blob size check.
FetchSignatureBlob_getSignatureBlobsDesc ==
    /\ regOp = "FetchSignatureBlob"
    /\ rpc = "fetchManifest"
    /\ IF ExceedsLimit(regArgs.desc.size, maxManifestSizeLimit)
       THEN /\ RegistryFail(regOp, errManifestTooLarge)
            /\ UNCHANGED <<regCalls, blobDesc>>
       ELSE \/ \E e \in RegistryErrors :
                 /\ regCalls' = Append(regCalls,
                        RegCall("fetch manifest", regArgs.desc, Failed(e)))
                 /\ RegistryFail(regOp, e)
                 /\ UNCHANGED blobDesc
            \/ \E manifestJSON \in ManifestJSONs :
                 LET d == DecodeBlobs(regArgs.desc.mediaType, manifestJSON)
                     s == SelectBlob(d.blobs)
                 IN /\ regCalls' = Append(regCalls,
                           RegCall("fetch manifest", regArgs.desc, Answered(manifestJSON)))
                    /\ IF d.err # NoError
                       THEN /\ RegistryFail(regOp, d.err)
                            /\ UNCHANGED blobDesc
                       ELSE IF s.err # NoError
                       THEN /\ RegistryFail(regOp, s.err)
                            /\ UNCHANGED blobDesc
                       ELSE /\ blobDesc' = s.desc
                            /\ rpc' = "fetchBlob"
                            /\ UNCHANGED regRet
    /\ UNCHANGED <<verifyVars, configVars, storeVars, signVars, regOp, regArgs, blobs, manifests>>

\* content.FetchAll(ctx, c.Repository.Blobs(), sigDesc) and the return.
FetchSignatureBlob_FetchAll ==
    /\ regOp = "FetchSignatureBlob"
    /\ rpc = "fetchBlob"
    /\ \/ \E e \in RegistryErrors :
            /\ regCalls' = Append(regCalls, RegCall("fetch blob", blobDesc, Failed(e)))
            /\ RegistryFail(regOp, e)
       \/ /\ regCalls' = Append(regCalls, RegCall("fetch blob", blobDesc, Answered("envelope")))
          /\ RegistryReturn("envelope", blobDesc, EmptyDescriptor, NoError)
    /\ UNCHANGED <<verifyVars, configVars, storeVars, signVars, regOp, regArgs, blobs, manifests, blobDesc>>

\* GetBlob: Blobs().Resolve and the size check.
GetBlob_Resolve ==
    /\ regOp = "GetBlob"
    /\ rpc = "resolve"
    /\ \/ \E e \in RegistryErrors :
            /\ regCalls' = Append(regCalls, RegCall("resolve blob", regArgs.digest, Failed(e)))
            /\ RegistryFail(regOp, e)
            /\ UNCHANGED blobDesc
       \/ \E desc \in BlobDescriptors :
            /\ regCalls' = Append(regCalls,
                   RegCall("resolve blob", regArgs.digest, Answered(desc)))
            /\ IF ExceedsLimit(desc.size, maxBlobSizeLimit)
               THEN /\ RegistryFail(regOp, errBlobTooLarge)
                    /\ UNCHANGED blobDesc
               ELSE /\ blobDesc' = desc
                    /\ rpc' = "fetchBlob"
                    /\ UNCHANGED regRet
    /\ UNCHANGED <<verifyVars, configVars, storeVars, signVars, regOp, regArgs, blobs, manifests>>

GetBlob_FetchAll ==
    /\ regOp = "GetBlob"
    /\ rpc = "fetchBlob"
    /\ \/ \E e \in RegistryErrors :
            /\ regCalls' = Append(regCalls, RegCall("fetch blob", blobDesc, Failed(e)))
            /\ RegistryFail(regOp, e)
       \/ /\ regCalls' = Append(regCalls, RegCall("fetch blob", blobDesc, Answered("envelope")))
          /\ RegistryReturn("envelope", EmptyDescriptor, EmptyDescriptor, NoError)
    /\ UNCHANGED <<verifyVars, configVars, storeVars, signVars, regOp, regArgs, blobs, manifests, blobDesc>>

\* getArtifactManifest: Manifests().Resolve and the size check.
getArtifactManifest_Resolve ==
    /\ regOp = "getArtifactManifest"
    /\ rpc = "resolve"
    /\ \/ \E e \in RegistryErrors :
            /\ regCalls' = Append(regCalls,
                   RegCall("resolve manifest", regArgs.digest, Failed(e)))
            /\ RegistryFail(regOp, e)
            /\ UNCHANGED blobDesc
       \/ \E desc \in ManifestDescriptors :
            /\ regCalls' = Append(regCalls,
                   RegCall("resolve manifest", regArgs.digest, Answered(desc)))
            /\ IF ExceedsLimit(desc.size, maxManifestSizeLimit)
               THEN /\ RegistryFail(regOp, errManifestTooLarge)
                    /\ UNCHANGED blobDesc
               ELSE /\ blobDesc' = desc
                    /\ rpc' = "fetchManifest"
                    /\ UNCHANGED regRet
    /\ UNCHANGED <<verifyVars, configVars, storeVars, signVars, regOp, regArgs, blobs, manifests>>

\* getArtifactManifest: the fetch and json.Unmarshal.
getArtifactManifest_FetchAll ==
    /\ regOp = "getArtifactManifest"
    /\ rpc = "fetchManifest"
    /\ \/ \E e \in RegistryErrors :
            /\ regCalls' = Append(regCalls, RegCall("fetch manifest", blobDesc, Failed(e)))
            /\ RegistryFail(regOp, e)
       \/ \E manifestJSON \in ManifestJSONs :
            /\ regCalls' = Append(regCalls,
                   RegCall("fetch manifest", blobDesc, Answered(manifestJSON)))
            /\ IF manifestJSON.decodes
               THEN RegistryReturn("nil", EmptyDescriptor, manifestJSON, NoError)
               ELSE RegistryFail(regOp, errUnmarshal)
    /\ UNCHANGED <<verifyVars, configVars, storeVars, signVars, regOp, regArgs, blobs, manifests, blobDesc>>

-----------------------------------------------------------------------------
(* The registry clients called on their own *)

Subjects == {OCIDescriptor(MediaTypeImageManifest, DigestOf("artifact"), 1)}
ManifestAnnotations == {NoAnnotations, [ref |-> "given", kv |-> {<<"k", "v">>}]}

PushArguments(op) ==
    {[mediaType |-> mt, blob |-> "envelope", subject |-> s, annotations |-> a,
      ociImageManifest |-> i] :
        mt \in SignatureMediaTypes, s \in Subjects, a \in ManifestAnnotations,
        i \in IF op = "PushSignature" THEN BOOLEAN ELSE {FALSE}}

RegistryArguments(op) ==
    CASE op = "FetchSignatureBlob" -> {[desc |-> d] : d \in ManifestDescriptors}
      [] op = "GetBlob" -> {[digest |-> DigestOf("envelope")]}
      [] op = "getArtifactManifest" -> {[digest |-> DigestOf("manifest")]}
      [] OTHER -> PushArguments(op)

FirstStep(op) ==
    CASE op = "FetchSignatureBlob" -> "fetchManifest"
      [] op \in {"GetBlob", "getArtifactManifest"} -> "resolve"
      [] OTHER -> "uploadBlob"

\* The blobs and manifests a registry may hold before the call.
StoredBlobs == {{}, {PushedDescriptor("application/jose+json", "older envelope")}}

RegistryInit ==
    /\ regOp \in RegistryOps
    /\ rpc = FirstStep(regOp)
    /\ regArgs \in RegistryArguments(regOp)
    /\ blobs \in StoredBlobs
    /\ manifests = {}
    /\ blobDesc = EmptyDescriptor
    /\ regRet = NoRegistryResult
    /\ regCalls = <<>>

NextRegistry ==
    \/ FetchSignatureBlob_getSignatureBlobsDesc
    \/ FetchSignatureBlob_FetchAll
    \/ PushSignature_PushBytes
    \/ PushSignature_uploadSignatureManifest
    \/ GetBlob_Resolve
    \/ GetBlob_FetchAll
    \/ getArtifactManifest_Resolve
    \/ getArtifactManifest_FetchAll
    \/ PutSignatureManifest_uploadSignature
    \/ PutSignatureManifest_uploadSignatureManifest

InitRegistry == VerifyIdle /\ SignIdle /\ RegistryInit /\ ConfigIdle /\ StoreIdle

SpecRegistry == InitRegistry /\ [][NextRegistry]_vars

-----------------------------------------------------------------------------
(* The signing flows after signer.Sign returned *)

\* hex.EncodeToString(sha256.Sum256(cert.Raw))
Thumbprint(cert) == "sha256(" \o cert.raw \o ")"

\* string(json.Marshal(thumbprints))
RECURSIVE Joined(_)
Joined(strings) ==
    IF Len(strings) = 0 THEN ""
    ELSE IF Len(strings) = 1 THEN "\"" \o strings[1] \o "\""
    ELSE "\"" \o strings[1] \o "\"," \o Joined(Tail(strings))

MarshalStrings(strings) == IF Len(strings) = 0 THEN "null" ELSE "[" \o Joined(strings) \o "]"

\* What signer.(signerAnnotation) and PluginAnnotations() may give: the signer
\* has no such method, or it returns nil or a map of the plugin.
PluginAnnotationMaps ==
    {NoAnnotations} \cup
    {[ref |-> "plugin", kv |-> kv] :
        kv \in SUBSET {<<annotationX509ChainThumbprint, "plugin">>, <<"pluginKey", "plugin">>}}

PluginAnnotationAnswers ==
    {[ok |-> FALSE, annotations |-> NoAnnotations]} \cup
    {[ok |-> TRUE, annotations |-> a] : a \in PluginAnnotationMaps}

\* var pluginAnnotations map[string]string, set when the signer has the method.
PluginAnnotations(answer) == IF answer.ok THEN answer.annotations ELSE NoAnnotations

generateAnnotations_KeepPluginValue(certificateChain, annotations) ==
    LET thumbprints == [i \in 1..Len(certificateChain) |-> Thumbprint(certificateChain[i])]
    IN [ref |-> IF annotations.ref = "nil" THEN "fresh" ELSE annotations.ref,
        kv |-> IF HasKey(annotations.kv, annotationX509ChainThumbprint)
               THEN annotations.kv
               ELSE annotations.kv
                      \cup {<<annotationX509ChainThumbprint, MarshalStrings(thumbprints)>>}]

generateAnnotations(certificateChain, annotations) ==
    LET thumbprints == [i \in 1..Len(certificateChain) |-> Thumbprint(certificateChain[i])]
    IN [ref |-> IF annotations.ref = "nil" THEN "fresh" ELSE annotations.ref,
        kv |-> {p \in annotations.kv : p[1] # annotationX509ChainThumbprint}
                 \cup {<<annotationX509ChainThumbprint, MarshalStrings(thumbprints)>>}]

\* remoteOpts.SignatureMediaType, handed on to PushSignature as it is.
SignatureMediaType == "application/jose+json"

\* The descriptor as a callee sees it: the digest and the map's contents.
Snapshot_ZeroDigest(desc, maps) ==
    [digest |-> ZeroDescriptor, annotations |-> AnnotationsOf(desc, maps)]

Snapshot(desc, maps) == [digest |-> desc.digest, annotations |-> AnnotationsOf(desc, maps)]

\* Sign: from the return of signer.Sign to the call of repo.PushSignature.
Sign_SignerReturned ==
    /\ signFlow = "Sign"
    /\ spc = "signerReturned"
    /\ IF sig.err # NoError
       THEN /\ SignFail(sig.err)
            /\ UNCHANGED <<registryVars, signCalls>>
       ELSE \E ociImageManifest \in BOOLEAN, answer \in PluginAnnotationAnswers :
              LET args == [mediaType |-> SignatureMediaType,
                           blob |-> sig.envelope,
                           subject |-> Snapshot(targetDesc, annotationMaps),
                           annotations |->
                               generateAnnotations(sig.chain, PluginAnnotations(answer)),
                           ociImageManifest |-> ociImageManifest]
              IN /\ signCalls' = signCalls \o
                        <<SignCall("signer.(signerAnnotation)", "nil", answer),
                          SignCall("PushSignature", args, "called")>>
                 /\ regOp' = "PushSignature"
                 /\ regArgs' = args
                 /\ rpc' = "uploadBlob"
                 /\ spc' = "push"
                 /\ UNCHANGED <<signRet, blobs, manifests, blobDesc, regRet, regCalls>>
    /\ UNCHANGED <<verifyVars, configVars, storeVars, signInputs, givenAnnotations, annotationMaps, targetDesc,
                   warned, pluginState>>

\* Sign: repo.PushSignature returned.
PushResult(e) == IF e # NoError THEN ErrorPushSignatureFailed(e) ELSE NoError

Sign_PushReturned ==
    /\ signFlow = "Sign"
    /\ spc = "push"
    /\ rpc = "returned"
    /\ IF regRet.err # NoError
       THEN SignFail(PushResult(regRet.err))
       ELSE SignReturn(targetDesc, NilEnvelope, NoAnnotations, NoError)
    /\ UNCHANGED <<verifyVars, configVars, storeVars, registryVars, signInputs, givenAnnotations, annotationMaps,
                   targetDesc, warned, pluginState, signCalls>>

\* SignLocalContent: from the return of signer.Sign to the end.
SignLocal_SignerReturned ==
    /\ signFlow = "SignLocalContent"
    /\ spc = "signerReturned"
    /\ IF sig.err # NoError
       THEN /\ SignFail(ErrorSignLocalContent(sig.err))
            /\ UNCHANGED signCalls
       ELSE \E answer \in PluginAnnotationAnswers :
              /\ signCalls' = Append(signCalls,
                     SignCall("signer.(signerAnnotation)", "nil", answer))
              /\ SignReturn(targetDesc, sig.envelope,
                            generateAnnotations(sig.chain, PluginAnnotations(answer)), NoError)
    /\ UNCHANGED <<verifyVars, configVars, storeVars, registryVars, signInputs,
                   givenAnnotations, annotationMaps, targetDesc, warned, pluginState>>

NextSign ==
    \/ Sign_Validate
    \/ Sign_Resolve
    \/ Sign_AddUserMetadata
    \/ Sign_SignerReturned
    \/ Sign_PushReturned
    \/ SignLocal_Validate
    \/ SignLocal_AddUserMetadata
    \/ SignLocal_SignerReturned
    \/ CallSigner
    \/ PluginSigner_Sign
    \/ PluginSigner_describeKey
    \/ PluginSigner_generateSignature
    \/ PushSignature_PushBytes
    \/ PushSignature_uploadSignatureManifest

InitSign == VerifyIdle /\ SignInit /\ RegistryIdle /\ ConfigIdle /\ StoreIdle

SpecSign == InitSign /\ [][NextSign]_vars

-----------------------------------------------------------------------------
(* jws.PluginSigner: the plugin configuration *)

ConfigKeys == {"region", "profile"}
ConfigValues == {"x", "y"}

\* The maps a caller may give: every map from some of the keys to the values.
ConfigMaps == UNION {[S -> ConfigValues] : S \in SUBSET ConfigKeys}

\* c[k] = v
SetEntry_KeepExisting(c, k, v) ==
    IF k \in DOMAIN c THEN c
    ELSE [x \in DOMAIN c \cup {k} |-> IF x = k THEN v ELSE c[x]]

SetEntry(c, k, v) == [x \in DOMAIN c \cup {k} |-> IF x = k THEN v ELSE c[x]]

ConfigInit ==
    /\ PluginConfig \in ConfigMaps
    /\ optsPluginConfig \in ConfigMaps
    /\ configMaps = [s |-> PluginConfig, opts |-> optsPluginConfig, c |-> EmptyMap]
    /\ config = "nil"
    /\ ranging = {}
    /\ cpc = "mergeConfig"
    /\ requests = <<>>

\* mergeConfig: c := make(map[string]string, ...), a new map object.
mergeConfig_make ==
    /\ cpc = "mergeConfig"
    /\ configMaps' = [configMaps EXCEPT !.c = EmptyMap]
    /\ ranging' = DOMAIN configMaps.s
    /\ cpc' = "clone"
    /\ UNCHANGED <<verifyVars, signVars, registryVars, storeVars, PluginConfig, optsPluginConfig,
                   config, requests>>

\* One turn of a range loop of mergeConfig over the map object from, or its
\* end: the keys come in any order.
Range(from, here, next, nextFrom) ==
    /\ cpc = here
    /\ IF ranging = {}
       THEN /\ cpc' = next
            /\ ranging' = IF nextFrom = "nil" THEN {} ELSE DOMAIN configMaps[nextFrom]
            /\ UNCHANGED configMaps
       ELSE \E k \in ranging :
              /\ configMaps' =
                     [configMaps EXCEPT !.c = SetEntry(configMaps.c, k, configMaps[from][k])]
              /\ ranging' = ranging \ {k}
              /\ UNCHANGED cpc
    /\ UNCHANGED <<verifyVars, signVars, registryVars, storeVars, PluginConfig, optsPluginConfig,
                   config, requests>>

\* for k, v := range s.PluginConfig { c[k] = v }
mergeConfig_clone == Range("s", "clone", "override", "opts")

\* for k, v := range config { c[k] = v }
mergeConfig_override == Range("opts", "override", "return", "nil")

\* config := s.mergeConfig(opts.PluginConfig)
mergeConfig_return ==
    /\ cpc = "return"
    /\ config' = "c"
    /\ cpc' = "describeKey"
    /\ UNCHANGED <<verifyVars, signVars, registryVars, storeVars, PluginConfig, optsPluginConfig,
                   configMaps, ranging, requests>>

\* A request as the runner receives it: the command and the plugin
\* configuration the request's map holds at that time.
Request(command, ref) == [command |-> command, pluginConfig |-> configMaps[ref]]

\* describeKey(ctx, config): the request carries config; generateSignature
\* goes on only when the command and the checks on its answer succeed.
Config_describeKey ==
    /\ cpc = "describeKey"
    /\ requests' = Append(requests, Request("describe-key", config))
    /\ \E ok \in BOOLEAN : cpc' = IF ok THEN "generateSignature" ELSE "done"
    /\ UNCHANGED <<verifyVars, signVars, registryVars, storeVars, PluginConfig, optsPluginConfig,
                   configMaps, config, ranging>>

\* The generate-signature request carries the same config.
Config_generateSignature ==
    /\ cpc = "generateSignature"
    /\ requests' = Append(requests, Request("generate-signature", config))
    /\ cpc' = "done"
    /\ UNCHANGED <<verifyVars, signVars, registryVars, storeVars, PluginConfig, optsPluginConfig,
                   configMaps, config, ranging>>

NextConfig ==
    \/ mergeConfig_make
    \/ mergeConfig_clone
    \/ mergeConfig_override
    \/ mergeConfig_return
    \/ Config_describeKey
    \/ Config_generateSignature

InitConfig == VerifyIdle /\ SignIdle /\ RegistryIdle /\ ConfigInit /\ StoreIdle

SpecConfig == InitConfig /\ [][NextConfig]_vars

-----------------------------------------------------------------------------
(* verification.LoadX509TrustStore *)

MaxFiles == 2          \* most entries the directory lists
MaxCertsPerFile == 2   \* most certificates one file holds

\* What the path may be: nothing, a directory, a regular file, a symlink to a
\* directory, a path os.Lstat fails on, a directory os.ReadDir fails on.
Paths == {"missing", "directory", "file", "symlink", "lstatError", "unreadable"}

\* The type of a directory entry, as os.ReadDir reports it.
EntryTypes == {"file", "directory", "symlink"}

\* A certificate of a trust store file: cert.IsCA, and whether it is signed
\* by itself with subject equal to issuer.
StoreCertificate(name, isCA, selfSigned) == [name |-> name, IsCA |-> isCA, selfSigned |-> selfSigned]

StoreCertificates ==
    {StoreCertificate("root", TRUE, TRUE), StoreCertificate("intermediate", TRUE, FALSE),
     StoreCertificate("selfSignedLeaf", FALSE, TRUE), StoreCertificate("leaf", FALSE, FALSE)}

\* What corex509.ReadCertificateFile may return: an error, or the file's
\* certificates (none when the file holds no certificate).
errReadCertificate == Error("x509Error", "malformed certificate file", 0)
FileContents ==
    {[certs |-> <<>>, err |-> errReadCertificate]} \cup
    {[certs |-> c, err |-> NoError] :
        c \in UNION {[1..n -> StoreCertificates] : n \in 0..MaxCertsPerFile}}

errNotExist == Error("errorString", "does not exist", 0)
errLstat == Error("pathError", "lstat", 0)
errNotDirectory == Error("errorString", "is not a regular directory", 0)
errReadDir == Error("pathError", "readdir", 0)
errNotRegularFile == Error("errorString", "is not a regular file", 0)
errNoCertificateInFile == Error("errorString", "could not parse a certificate", 0)
errSingleCertificate ==
    Error("errorString", "is not a self-signed certificate or CA certificate", 0)
errNotCA == Error("errorString", "is not a CA certificate", 0)
errEmptyStore == Error("errorString", "has no x509 certificates", 0)

\* isSelfSigned
isSelfSigned(cert) == cert.selfSigned

\* validateCerts: the certificates of one file.
validateCerts_SingleUnchecked(certs) ==
    IF Len(certs) < 1 THEN errNoCertificateInFile
    ELSE IF Len(certs) = 1 THEN NoError
    ELSE IF \E i \in 1..Len(certs) : ~certs[i].IsCA THEN errNotCA
    ELSE NoError

validateCerts(certs) ==
    IF Len(certs) < 1 THEN errNoCertificateInFile
    ELSE IF Len(certs) = 1
    THEN IF ~isSelfSigned(certs[1]) /\ ~certs[1].IsCA THEN errSingleCertificate ELSE NoError
    ELSE IF \E i \in 1..Len(certs) : ~certs[i].IsCA THEN errNotCA
    ELSE NoError

\* file.IsDir() || file.Type()&fs.ModeSymlink != 0
NotRegularFile_DirectoryOnly(type) == type = "directory"

NotRegularFile(type) == type = "directory" \/ type = "symlink"

\* The checks on the path, up to os.ReadDir.
PathCheck(p) ==
    CASE p = "missing" -> errNotExist
      [] p = "lstatError" -> errLstat
      [] p \in {"file", "symlink"} -> errNotDirectory
      [] p = "unreadable" -> errReadDir
      [] OTHER -> NoError

StoreInit ==
    /\ path \in Paths
    /\ files = <<>>
    /\ fileIdx = 0
    /\ fileCerts = <<>>
    /\ trustStore = <<>>
    /\ tpc = "stat"
    /\ storeRet = [store |-> NilStore, err |-> NoError]

StoreReturn(store, e) ==
    /\ storeRet' = [store |-> store, err |-> e]
    /\ tpc' = "returned"

\* LoadX509TrustStore, up to the range loop.
LoadX509TrustStore_ReadDir ==
    /\ tpc = "stat"
    /\ IF PathCheck(path) # NoError
       THEN /\ StoreReturn(NilStore, PathCheck(path))
            /\ UNCHANGED <<files, fileIdx>>
       ELSE /\ files' \in UNION {[1..n -> EntryTypes] : n \in 0..MaxFiles}
            /\ fileIdx' = 1
            /\ tpc' = "range"
            /\ UNCHANGED storeRet
    /\ UNCHANGED <<verifyVars, signVars, registryVars, configVars, path, fileCerts, trustStore>>

\* One turn of the loop over the directory's entries.
LoadX509TrustStore_File ==
    /\ tpc = "range"
    /\ fileIdx <= Len(files)
    /\ IF NotRegularFile(files[fileIdx])
       THEN /\ StoreReturn(NilStore, errNotRegularFile)
            /\ UNCHANGED <<fileIdx, fileCerts, trustStore>>
       ELSE \E content \in FileContents :
              /\ fileCerts' = Append(fileCerts, content)
              /\ IF content.err # NoError
                 THEN /\ StoreReturn(NilStore,
                             Wrap("error while reading certificates", content.err))
                      /\ UNCHANGED <<fileIdx, trustStore>>
                 ELSE IF validateCerts(content.certs) # NoError
                 THEN /\ StoreReturn(NilStore, validateCerts(content.certs))
                      /\ UNCHANGED <<fileIdx, trustStore>>
                 ELSE /\ trustStore' = trustStore \o content.certs
                      /\ fileIdx' = fileIdx + 1
                      /\ UNCHANGED <<tpc, storeRet>>
    /\ UNCHANGED <<verifyVars, signVars, registryVars, configVars, path, files>>

\* After the loop: the store, when it holds a certificate.
LoadX509TrustStore_Return ==
    /\ tpc = "range"
    /\ fileIdx > Len(files)
    /\ IF Len(trustStore) < 1
       THEN StoreReturn(NilStore, errEmptyStore)
       ELSE StoreReturn([isNil |-> FALSE, Certificates |-> trustStore], NoError)
    /\ UNCHANGED <<verifyVars, signVars, registryVars, configVars, path, files, fileIdx,
                   fileCerts, trustStore>>

NextStore ==
    \/ LoadX509TrustStore_ReadDir
    \/ LoadX509TrustStore_File
    \/ LoadX509TrustStore_Return

InitStore == VerifyIdle /\ SignIdle /\ RegistryIdle /\ ConfigIdle /\ StoreInit

SpecStore == InitStore /\ [][NextStore]_vars

-----------------------------------------------------------------------------
(* Sign, then Verify of the same reference on the same repository *)

\* The signature manifests of the registry that refer to the artifact d.
SignaturesOf(d) ==
    {m \in manifests : m.artifactType = ArtifactTypeNotation /\ m.subject.digest = d}

\* The registry lists the signature Sign pushed among the referrers of the
\* artifact Verify resolved, at position listedAt.
PushedIsListed == SignaturesOf(artifactDescriptor) # {}

\* The pushed manifest names one blob, the registry stores it, and it is the
\* envelope the signer made.
PushedIsFetchable ==
    \E m \in SignaturesOf(artifactDescriptor) :
        /\ Len(m.blobs \o m.layers) = 1
        /\ (m.blobs \o m.layers)[1] \in blobs
        /\ (m.blobs \o m.layers)[1] = PushedDescriptor(SignatureMediaType, sig.envelope)

\* The envelope signs the artifact Verify resolved.
EnvelopeSigns(d) ==
    /\ sig.envelope # NilEnvelope
    /\ sig.envelope.compact[1].payload.subject.digest = d

\* The repository and the verifier of the round trip.  The repository is the
\* remote one Sign pushed to and answers from what it stores: the reference
\* parses as it did for Sign and resolves to the artifact Sign signed, the
\* listing ends without error and holds the pushed signature, whose blob can
\* be fetched.  The verifier's trust policy is not at level skip and trusts
\* the signer's chain, so it verifies the pushed envelope for the artifact it
\* signs.  The other signatures the registry lists, and what fetching and
\* verifying them gives, are free.
RoundTripAnswers ==
    /\ pc = "parseReference" => pc' = "resolve"
    /\ (pc = "referrers" /\ pc' = "after") =>
        /\ err' = NoError
        /\ PushedIsListed => Len(delivered) >= listedAt
    /\ (pagesDelivered' = MaxPages /\ PushedIsListed) => Len(delivered') >= listedAt
    /\ Len(calls') > Len(calls) =>
        LET c == calls'[Len(calls')] IN
        /\ c.op = "SkipVerify" => c.res = "noskip"
        /\ c.op = "Resolve" => c.res = targetDesc.digest
        /\ (c.op = "FetchSignatureBlob" /\ c.sig = listedAt /\ PushedIsListed
                /\ PushedIsFetchable) => c.res = "ok"
        /\ (c.op = "Verify" /\ c.sig = listedAt /\ PushedIsListed /\ PushedIsFetchable) =>
                c.res = IF EnvelopeSigns(artifactDescriptor) THEN "verified" ELSE "failed"

\* Sign of a reference with a tag or a digest, on a repository, and the
\* options of the Verify that follows it.
RoundTripInit ==
    /\ SignInit
    /\ signFlow = "Sign"
    /\ ExpiryDuration = 0
    /\ ParseReference(ArtifactReference).err = NoError
    /\ ~repoIsNil
    /\ UserMetadata \in {{}, MapOf({"buildId"}, "user")}
    /\ KeyID = "mine"
    /\ flow = "Verify"
    /\ repoIsRemote = TRUE
    /\ TargetAtLocal = FALSE
    /\ MaxSignatureAttempts \in 1..MaxAttempts
    /\ listedAt \in 1..(MaxPageLen + 1)
    /\ first = NoRun
    /\ pc = "idle"
    /\ artifactDescriptor = ZeroDescriptor
    /\ numOfSignatureProcessed = 0
    /\ verificationOutcomes = <<>>
    /\ verificationFailedErr = NoError
    /\ signatureManifests = <<>>
    /\ idx = 0
    /\ cbErr = NoError
    /\ err = NoError
    /\ delivered = <<>>
    /\ pagesDelivered = 0
    /\ retDesc = ZeroDescriptor
    /\ retOutcomes = <<>>
    /\ retErr = NoError
    /\ calls = <<>>

\* The signer of the round trip: a PluginSigner whose plugin is a working
\* signature generator with an RSA key and a chain of two certificates, and
\* which has no PluginAnnotations method.
WorkingPlugin ==
    \A i \in (Len(signCalls) + 1)..Len(signCalls') :
        LET c == signCalls'[i] IN
        /\ c.op = "get-plugin-metadata" =>
              c.res = [type |-> "Metadata", valid |-> TRUE,
                       capabilities |-> {"SIGNATURE_GENERATOR"}]
        /\ c.op = "describe-key" =>
              c.res = [type |-> "DescribeKeyResponse", keyID |-> KeyID, keySpec |-> "RSA_2048"]
        /\ c.op = "generate-signature" =>
              c.res = [type |-> "GenerateSignatureResponse", keyID |-> KeyID,
                       signingAlgorithm |-> "RSASSA_PSS_SHA_256",
                       signature |-> Signature("pkA", "PS256", c.arg.payload),
                       certificateChain |->
                           <<Certificate("leafA", TRUE, "pkA", TRUE),
                             Certificate("ca", TRUE, "pkCA", FALSE)>>]
        /\ c.op = "signer.(signerAnnotation)" => ~c.res.ok

\* A step of the signing flow of the round trip.
RoundTrip_Sign ==
    /\ \/ Sign_Validate
       \/ Sign_Resolve
       \/ Sign_AddUserMetadata
       \/ CallSigner
       \/ PluginSigner_Sign
       \/ PluginSigner_describeKey
       \/ PluginSigner_generateSignature
       \/ Sign_SignerReturned
       \/ PushSignature_PushBytes
       \/ PushSignature_uploadSignatureManifest
       \/ Sign_PushReturned
    /\ WorkingPlugin

\* Sign has returned a nil error: Verify is called.
RoundTrip_CallVerify ==
    /\ spc = "done"
    /\ signRet.err = NoError
    /\ pc = "idle"
    /\ pc' = "checkRepo"
    /\ UNCHANGED <<inputs, artifactDescriptor, iter, rets, calls>>

\* A step of Verify, with the answers of the round trip's repository and
\* verifier.
RoundTrip_Verify ==
    /\ \/ Verify_CheckRepo
       \/ Verify_SkipVerify
       \/ Verify_CheckMax
       \/ Verify_ParseReference
       \/ Verify_Resolve
       \/ Verify_ListSignatures
       \/ ListSignatures_NextPage
       \/ ListSignatures_Return
       \/ ListSignatures_CallbackReturned
       \/ Verify_LoopHead
       \/ Verify_FetchSignatureBlob
       \/ Verify_VerifySignature
       \/ Verify_LoopEnd
       \/ Verify_Return
    /\ RoundTripAnswers

NextRoundTrip ==
    \/ RoundTrip_Sign
    \/ RoundTrip_CallVerify
    \/ RoundTrip_Verify

InitRoundTrip == RoundTripInit /\ RegistryIdle /\ ConfigIdle /\ StoreIdle

SpecRoundTrip == InitRoundTrip /\ [][NextRoundTrip]_vars

-----------------------------------------------------------------------------
(* notation.Verify followed by notation.VerifyLocalContent on the same       *)
(* artifact: the second call is given a repository and a verifier that       *)
(* answer as those of the first call did.                                    *)

\* The positions of a flow before it calls ListSignatures.
BeforeListing ==
    pc \in {"checkRepo", "checkTarget", "checkMax", "skipVerify", "parseReference", "resolve"}

\* Both calls get as far as ListSignatures: the limit is positive, the
\* repository is of the kind the flow asks for, the reference parses and
\* resolves, and the verifier does not skip.
ReachesListing == BeforeListing => pc' # "done"

\* The pages handed to the first call's callback, and what its repository
\* and verifier answered for signature s.
FirstPages == SelectSeq(first.calls, LAMBDA c : c.op = "fn")
FirstAnswers(op, s) == {c.res : c \in {first.calls[j] : j \in
                            {i \in 1..Len(first.calls) :
                                first.calls[i].op = op /\ first.calls[i].sig = s}}}

\* The first call's listing ended of itself, not by an error of the callback.
FirstListingEnded == first.listErr \in {NoError, errReferrers}

\* The second call's repository lists the pages the first call's did and
\* ends the listing as it did; a signature the first call fetched or verified
\* gets the same answer.  Where the first call did not get to, the answers
\* are free.
Replay ==
    /\ pc = "resolve" => artifactDescriptor' = first.resolved
    /\ (pc = "referrers" /\ pagesDelivered < Len(FirstPages)) =>
            /\ pc' = "loop"
            /\ Len(signatureManifests') = FirstPages[pagesDelivered + 1].sig
    /\ (pc = "referrers" /\ pagesDelivered >= Len(FirstPages) /\ FirstListingEnded) =>
            /\ pc' = "after"
            /\ err' = first.listErr
    /\ pc \in {"fetch", "verify"} =>
            LET c == calls'[Len(calls')] IN
            FirstAnswers(c.op, c.sig) # {} => c.res \in FirstAnswers(c.op, c.sig)

BothInit ==
    /\ flow = "Verify"
    /\ repoIsRemote = TRUE
    /\ TargetAtLocal = FALSE
    /\ MaxSignatureAttempts \in 1..MaxAttempts
    /\ listedAt = 0
    /\ first = NoRun
    /\ pc = "checkRepo"
    /\ artifactDescriptor = ZeroDescriptor
    /\ numOfSignatureProcessed = 0
    /\ verificationOutcomes = <<>>
    /\ verificationFailedErr = NoError
    /\ signatureManifests = <<>>
    /\ idx = 0
    /\ cbErr = NoError
    /\ err = NoError
    /\ delivered = <<>>
    /\ pagesDelivered = 0
    /\ retDesc = ZeroDescriptor
    /\ retOutcomes = <<>>
    /\ retErr = NoError
    /\ calls = <<>>

\* A step of the Verify call.
Both_Verify ==
    /\ ~first.done
    /\ \/ Verify_CheckRepo
       \/ Verify_SkipVerify
       \/ Verify_CheckMax
       \/ Verify_ParseReference
       \/ Verify_Resolve
       \/ Verify_ListSignatures
       \/ ListSignatures_NextPage
       \/ ListSignatures_Return
       \/ ListSignatures_CallbackReturned
       \/ Verify_LoopHead
       \/ Verify_FetchSignatureBlob
       \/ Verify_VerifySignature
       \/ Verify_LoopEnd
       \/ Verify_Return
    /\ ReachesListing

\* Verify has returned: VerifyLocalContent is called with the same limit, on
\* a local repository.
Both_CallVerifyLocalContent ==
    /\ ~first.done /\ pc = "done"
    /\ first' = [done |-> TRUE, calls |-> calls, processed |-> numOfSignatureProcessed,
                 resolved |-> artifactDescriptor, listErr |-> err,
                 desc |-> retDesc, outcomes |-> retOutcomes, err |-> retErr]
    /\ flow' = "VerifyLocalContent"
    /\ repoIsRemote' = FALSE
    /\ TargetAtLocal' = TRUE
    /\ pc' = "checkTarget"
    /\ artifactDescriptor' = ZeroDescriptor
    /\ numOfSignatureProcessed' = 0
    /\ verificationOutcomes' = <<>>
    /\ verificationFailedErr' = NoError
    /\ signatureManifests' = <<>>
    /\ idx' = 0
    /\ cbErr' = NoError
    /\ err' = NoError
    /\ delivered' = <<>>
    /\ pagesDelivered' = 0
    /\ retDesc' = ZeroDescriptor
    /\ retOutcomes' = <<>>
    /\ retErr' = NoError
    /\ calls' = <<>>
    /\ UNCHANGED <<MaxSignatureAttempts, listedAt, signVars, registryVars, configVars,
                   storeVars>>

\* A step of the VerifyLocalContent call.
Both_VerifyLocalContent ==
    /\ first.done
    /\ \/ Local_CheckTarget
       \/ Local_CheckMax
       \/ Local_CheckRepo
       \/ Local_Resolve
       \/ Local_SkipVerify
       \/ Local_ListSignatures
       \/ ListSignatures_NextPage
       \/ ListSignatures_Return
       \/ ListSignatures_CallbackReturned
       \/ Local_LoopHead
       \/ Local_FetchSignatureBlob
       \/ Local_VerifySignature
       \/ Local_LoopEnd
       \/ Local_Return
    /\ ReachesListing
    /\ Replay

NextBoth ==
    \/ Both_Verify
    \/ Both_CallVerifyLocalContent
    \/ Both_VerifyLocalContent

InitBoth == BothInit /\ SignIdle /\ RegistryIdle /\ ConfigIdle /\ StoreIdle

SpecBoth == InitBoth /\ [][NextBoth]_vars

-----------------------------------------------------------------------------
(* Reading the history of a signing flow *)

SignCallsOf(op) == SelectSeq(signCalls, LAMBDA c : c.op = op)
SignCalled(op) == \E i \in 1..Len(signCalls) : signCalls[i].op = op

\* Position of the first call of op in the history (0 when there is none).
FirstCall(op) ==
    IF SignCalled(op)
    THEN CHOOSE i \in 1..Len(signCalls) :
             /\ signCalls[i].op = op
             /\ \A j \in 1..(i - 1) : signCalls[j].op # op
    ELSE 0

\* Nothing was sent to the registry and it stores nothing.
NothingPushed == regCalls = <<>> /\ blobs = {} /\ manifests = {}

SignFailed ==
    /\ signRet.err # NoError
    /\ signRet.desc = Descriptor(ZeroDescriptor, "nil")
    /\ signRet.sig = [compact |-> <<>>, x5c |-> <<>>]
    /\ signRet.annotations = NoAnnotations

HasReservedKey == \E k \in Keys(UserMetadata) : HasPrefix(k, "io.cncf.notary")

-----------------------------------------------------------------------------
\* C11: when the user metadata holds a key that begins with io.cncf.notary,
\* Sign and SignLocalContent never call signer.Sign, Sign never calls
\* PushSignature (nothing reaches the registry), and the flow returns an
\* error with zero results.
C11_ReservedPrefixRejected ==
    HasReservedKey =>
        /\ ~SignCalled("signer.Sign")
        /\ ~SignCalled("PushSignature")
        /\ NothingPushed
        /\ spc \notin {"signer", "getMetadata", "describeKey", "generateSignature",
                       "signerReturned", "push"}
        /\ spc = "done" => SignFailed

\* Sign resolved the reference and then rejected a reserved key that came
\* with an ordinary one.
C11_Witness ==
    /\ signFlow = "Sign"
    /\ spc = "done"
    /\ UserMetadata = MapOf({"io.cncf.notary.custom", "owner"}, "user")
    /\ SignCalled("Resolve")
    /\ signRet.err = errReservedPrefix("io.cncf.notary.custom")

-----------------------------------------------------------------------------
\* A key of the user metadata is already a key of the given descriptor's
\* annotations.
Collision == Keys(givenAnnotations.kv) \cap Keys(UserMetadata) # {}

\* C12: when the given descriptor's annotations and the user metadata share a
\* key, Sign and SignLocalContent return an error, never call signer.Sign and
\* push nothing; when the user metadata has no reserved key and shares no key,
\* signer.Sign is given the original annotations united with the user metadata.
C12_CollisionRejectedElseUnion ==
    /\ Collision =>
        /\ ~SignCalled("signer.Sign")
        /\ ~SignCalled("PushSignature")
        /\ NothingPushed
        /\ spc = "done" => SignFailed
    /\ (~HasReservedKey /\ ~Collision) =>
        \A i \in 1..Len(signCalls) :
            signCalls[i].op = "signer.Sign" =>
                signCalls[i].arg.annotations = givenAnnotations.kv \cup UserMetadata

\* SignLocalContent was given a descriptor annotated with buildId and user
\* metadata that sets buildId and owner.
C12_Witness ==
    /\ signFlow = "SignLocalContent"
    /\ spc = "done"
    /\ givenAnnotations.kv = MapOf({"buildId"}, "given")
    /\ UserMetadata = MapOf({"buildId", "owner"}, "user")
    /\ signRet.err = ErrorSignLocalContent(errAlreadyPresent("buildId"))

-----------------------------------------------------------------------------
\* The expiry is negative or not a whole number of seconds.
BadExpiry ==
    \/ ExpiryDuration < 0
    \/ \A n \in 0..ExpiryDuration : n * TicksPerSecond # ExpiryDuration

ExpiryMessages ==
    {"expiry duration cannot be a negative value",
     "expiry duration supports minimum granularity of seconds"}

\* C13: Sign given a negative expiry, an expiry that is not a whole number of
\* seconds, or a reference with neither tag nor digest returns an error
\* without calling repo.Resolve, signer.Sign or repo.PushSignature;
\* SignLocalContent given such an expiry returns an error without calling
\* signer.Sign; no flow rejects an expiry of zero.
C13_ValidationBeforeSideEffects ==
    /\ (signFlow = "Sign" /\ (BadExpiry \/ ArtifactReference = "localhost/repo")) =>
        /\ signCalls = <<>>
        /\ NothingPushed
        /\ spc \in {"validate", "done"}
        /\ spc = "done" => SignFailed
    /\ (signFlow = "SignLocalContent" /\ BadExpiry) =>
        /\ signCalls = <<>>
        /\ spc \in {"validate", "done"}
        /\ spc = "done" => SignFailed
    /\ ExpiryDuration = 0 => signRet.err.msg \notin ExpiryMessages

\* Sign was given an expiry of one tick, less than a second, and a valid digest
\* reference.
C13_Witness ==
    /\ signFlow = "Sign"
    /\ spc = "done"
    /\ ExpiryDuration = 1
    /\ ArtifactReference = "localhost/repo@sha256:aaa"
    /\ ~repoIsNil
    /\ signRet.err = errExpiryGranularity
    /\ signCalls = <<>>

-----------------------------------------------------------------------------
\* The arguments of Sign pass its validation.
ValidSignArguments ==
    /\ signFlow = "Sign"
    /\ ~BadExpiry
    /\ ArtifactReference \in {"localhost/repo:v1", "localhost/repo@sha256:aaa"}
    /\ ~repoIsNil

AfterResolve == spc \notin {"validate", "resolve"}

\* repo.Resolve is called exactly once, before any other call, and every
\* descriptor the flow hands on or returns carries the digest it answered.
ResolvedOnceAndDigestKept ==
    /\ Len(SignCallsOf("Resolve")) = 1
    /\ signCalls[1].op = "Resolve"
    /\ \A i \in 1..Len(signCalls) :
        /\ signCalls[i].op = "signer.Sign" =>
             /\ signCalls[1].res.err = NoError
             /\ signCalls[i].arg.digest = signCalls[1].res.digest
        /\ signCalls[i].op = "PushSignature" =>
             /\ signCalls[1].res.err = NoError
             /\ signCalls[i].arg.subject.digest = signCalls[1].res.digest
    /\ (spc = "done" /\ signRet.err = NoError) =>
        /\ signCalls[1].res.err = NoError
        /\ signRet.desc.digest = signCalls[1].res.digest

\* C14 as stated: every Sign call that passes validation calls repo.Resolve
\* exactly once before signer.Sign, hands on and returns the resolved digest,
\* and emits the warning exactly when the reference is not a digest reference.
C14_WarningIffNotDigestReference ==
    (ValidSignArguments /\ AfterResolve) =>
        /\ ResolvedOnceAndDigestKept
        /\ warned <=> ArtifactReference # "localhost/repo@sha256:aaa"

\* C14, amended: every Sign call that passes validation calls repo.Resolve
\* exactly once before signer.Sign, hands on and returns the resolved digest,
\* and emits the warning exactly when repo.Resolve succeeded and the reference
\* is not a digest reference.
C14_WarningIffResolvedTagReference ==
    (ValidSignArguments /\ AfterResolve) =>
        /\ ResolvedOnceAndDigestKept
        /\ warned <=> /\ ArtifactReference # "localhost/repo@sha256:aaa"
                      /\ signCalls[1].res.err = NoError

\* Sign of a tag reference that resolved to sha256:bbb, warned, signed and
\* pushed.
C14_Witness ==
    /\ signFlow = "Sign"
    /\ spc = "done"
    /\ ArtifactReference = "localhost/repo:v1"
    /\ warned
    /\ signRet.err = NoError
    /\ signRet.desc.digest = "sha256:bbb"
    /\ SignCalled("PushSignature")

-----------------------------------------------------------------------------
\* The plugin answered describe-key with a keyID that is not the signer's.
DescribeKeyMismatch ==
    \E i \in 1..Len(signCalls) :
        /\ signCalls[i].op = "describe-key"
        /\ signCalls[i].res.type = "DescribeKeyResponse"
        /\ signCalls[i].res.keyID # KeyID

\* C15: when the describe-key response carries a keyID other than the
\* configured one, PluginSigner.Sign returns the keyID mismatch error and no
\* envelope, generate-signature is never issued, and the enclosing flow never
\* calls PushSignature: nothing reaches the registry.
C15_KeyMismatchStopsSigning ==
    DescribeKeyMismatch =>
        /\ sig.envelope = [compact |-> <<>>, x5c |-> <<>>]
        /\ sig.err = errKeyIDMismatch
        /\ ~SignCalled("generate-signature")
        /\ ~SignCalled("PushSignature")
        /\ NothingPushed
        /\ spc \in {"signerReturned", "done"}
        /\ spc = "done" => SignFailed /\ signRet.err.msg = "keyID mismatch"

\* Sign with a signer configured with key "mine" whose plugin described key
\* "other".
C15_Witness ==
    /\ signFlow = "Sign"
    /\ spc = "done"
    /\ KeyID = "mine"
    /\ \E i \in 1..Len(signCalls) :
        /\ signCalls[i].op = "describe-key"
        /\ signCalls[i].res.type = "DescribeKeyResponse"
        /\ signCalls[i].res.keyID = "other"
        /\ signCalls[i].res.keySpec = "RSA_2048"
    /\ signRet.err = errKeyIDMismatch

-----------------------------------------------------------------------------
(* Reading the history of a registry operation *)

PushOps == {"PushSignature", "PutSignatureManifest"}

\* The descriptor of the envelope blob the operation was asked to upload.
EnvelopeDescriptor == [mediaType |-> regArgs.mediaType, digest |-> <<"sha256", regArgs.blob>>]

\* The blobs and layers a manifest lists.
ListedBlobs(m) == m.blobs \o m.layers

\* The manifest is a Notary signature manifest of the call's subject, with the
\* call's annotations and the uploaded envelope as its only blob.
IsSignatureManifestOfCall(m) ==
    /\ m.artifactType = "application/vnd.cncf.notary.signature"
    /\ m.subject = regArgs.subject
    /\ m.annotations = regArgs.annotations
    /\ ListedBlobs(m) = <<EnvelopeDescriptor>>
    /\ EnvelopeDescriptor \in blobs

ZeroResults ==
    /\ regRet.desc = EmptyDescriptor
    /\ regRet.manifest \in {EmptyDescriptor, [Blob |-> EmptyDescriptor, Annotations |-> NoAnnotations]}

\* C16: PushSignature (and PutSignatureManifest of the older client) uploads
\* the envelope blob first and the signature manifest second; the manifest has
\* the Notary artifact type, the given subject, the given annotations and the
\* uploaded blob as its only blob or layer; when the blob upload fails no
\* manifest is uploaded; on every failure both returned descriptors are zero.
C16_BlobThenManifest ==
    regOp \in PushOps =>
        /\ \A i \in 1..Len(regCalls) :
             /\ regCalls[i].op = "push blob" => i = 1
             /\ regCalls[i].op = "push manifest" =>
                  /\ i = 2
                  /\ regCalls[1].op = "push blob"
                  /\ IsSignatureManifestOfCall(regCalls[i].arg)
        /\ \A m \in manifests : IsSignatureManifestOfCall(m)
        /\ EnvelopeDescriptor \notin blobs =>
             /\ manifests = {}
             /\ \A i \in 1..Len(regCalls) : regCalls[i].op # "push manifest"
        /\ (rpc = "returned" /\ regRet.err # NoError) => ZeroResults
        /\ (rpc = "returned" /\ regRet.err = NoError) =>
             /\ Cardinality(manifests) = 1
             /\ regRet.desc # EmptyDescriptor

\* PushSignature returned after it uploaded the blob and an image manifest
\* with annotations.
C16_Witness ==
    /\ regOp = "PushSignature"
    /\ rpc = "returned"
    /\ regRet.err = NoError
    /\ regArgs.ociImageManifest
    /\ regArgs.annotations.kv # {}
    /\ Len(regCalls) = 2
    /\ \E m \in manifests : m.layers = <<regRet.desc>> /\ m.blobs = <<>>

-----------------------------------------------------------------------------
PluginCommands == {"get-plugin-metadata", "describe-key", "generate-signature"}

\* A call on the repository or on the plugin returned because the context was
\* cancelled.
Cancelled ==
    \/ \E i \in 1..Len(signCalls) :
        \/ signCalls[i].op = "Resolve" /\ signCalls[i].res.err = errCanceled
        \/ /\ signCalls[i].op \in PluginCommands
           /\ signCalls[i].res.type = "error"
           /\ signCalls[i].res.err = errCanceled
    \/ \E i \in 1..Len(regCalls) : regCalls[i].res.err = errCanceled

\* C17: when a call made by Sign on the repository or on the plugin returns
\* because the context was cancelled, the registry stores the blobs and
\* manifests it stored before the call (none), and Sign returns an error of
\* the cancelled kind.
C17_CancellationLeavesNoTrace ==
    (signFlow = "Sign" /\ Cancelled) =>
        /\ blobs = {}
        /\ manifests = {}
        /\ spc = "done" => signRet.err.type = "context.Canceled"

-----------------------------------------------------------------------------
MiB == 1024 * 1024

\* The descriptor of the content the operation is about to fetch, once the
\* registry has told it: the manifest FetchSignatureBlob was given, the single
\* blob its manifest lists, or the descriptor Resolve answered.
ListedIn(manifestJSON, mediaType) ==
    IF mediaType = "application/vnd.oci.image.manifest.v1+json"
    THEN manifestJSON.layers
    ELSE manifestJSON.blobs

\* The first request was answered with content.
FirstAnswered == Len(regCalls) >= 1 /\ regCalls[1].res.err = NoError

\* The operation went on to a second request.
WentOn(step) == rpc = step \/ Len(regCalls) >= 2

\* The operation returned an error after a single request.
StoppedAfterFirst ==
    /\ rpc = "returned"
    /\ regRet.err # NoError
    /\ regRet.bytes = "nil"
    /\ Len(regCalls) = 1

\* C18: no manifest larger than 4 MiB and no blob larger than 32 MiB is ever
\* fetched: FetchSignatureBlob given a larger manifest descriptor, or finding
\* a larger blob in the manifest, returns an error without the fetch, and so
\* do GetBlob and getArtifactManifest of the older client for the descriptor
\* Resolve answers; a size equal to the limit is fetched.
C18_SizeLimits ==
    /\ \A i \in 1..Len(regCalls) :
        /\ regCalls[i].op = "fetch manifest" => regCalls[i].arg.size <= 4 * MiB
        /\ regCalls[i].op = "fetch blob" => regCalls[i].arg.size <= 32 * MiB
    /\ regOp = "FetchSignatureBlob" =>
        /\ regArgs.desc.size > 4 * MiB =>
             /\ regCalls = <<>>
             /\ rpc = "returned" => regRet.err # NoError /\ regRet.bytes = "nil"
        /\ (regArgs.desc.size <= 4 * MiB /\ rpc = "returned") => Len(regCalls) >= 1
        /\ (FirstAnswered /\ regCalls[1].res.content.decodes) =>
             LET listed == ListedIn(regCalls[1].res.content, regArgs.desc.mediaType) IN
               (Len(listed) = 1 /\ regArgs.desc.mediaType # "application/vnd.docker.manifest") =>
                   IF listed[1].size > 32 * MiB
                   THEN StoppedAfterFirst
                   ELSE WentOn("fetchBlob")
    /\ (regOp = "GetBlob" /\ FirstAnswered) =>
            IF regCalls[1].res.content.size > 32 * MiB
            THEN StoppedAfterFirst
            ELSE WentOn("fetchBlob")
    /\ (regOp = "getArtifactManifest" /\ FirstAnswered) =>
            IF regCalls[1].res.content.size > 4 * MiB
            THEN StoppedAfterFirst
            ELSE WentOn("fetchManifest")

\* FetchSignatureBlob fetched a manifest of exactly 4 MiB and returned its
\* blob of exactly 32 MiB.
C18_Witness ==
    /\ regOp = "FetchSignatureBlob"
    /\ rpc = "returned"
    /\ regRet.err = NoError
    /\ regArgs.desc.size = 4 * MiB
    /\ regRet.desc.size = 32 * MiB
    /\ Len(regCalls) = 2

-----------------------------------------------------------------------------
OCIManifestTypes ==
    {"application/vnd.oci.image.manifest.v1+json",
     "application/vnd.oci.artifact.manifest.v1+json"}

\* The fetched manifest is one FetchSignatureBlob accepts: an OCI image or
\* artifact manifest that decodes and lists exactly one signature blob.
AcceptableManifest ==
    /\ regArgs.desc.mediaType \in OCIManifestTypes
    /\ regCalls[1].res.content.decodes
    /\ Len(ListedIn(regCalls[1].res.content, regArgs.desc.mediaType)) = 1

\* C19: FetchSignatureBlob returns a nil error only when the manifest it
\* fetched is an OCI image manifest (its layers are the blobs) or an OCI
\* artifact manifest (its blobs are the blobs) that decodes and lists exactly
\* one blob, and then returns that blob's descriptor; for any other fetched
\* manifest it returns an error, nil bytes and the zero descriptor without
\* fetching a blob.
C19_ExactlyOneSignatureBlob ==
    regOp = "FetchSignatureBlob" =>
        /\ (rpc = "returned" /\ regRet.err = NoError) =>
             /\ FirstAnswered
             /\ AcceptableManifest
             /\ Len(regCalls) = 2
             /\ regCalls[2].op = "fetch blob"
             /\ regCalls[2].arg =
                    ListedIn(regCalls[1].res.content, regArgs.desc.mediaType)[1]
             /\ regRet.desc = regCalls[2].arg
             /\ regRet.bytes # "nil"
        /\ (FirstAnswered /\ ~AcceptableManifest) =>
             /\ StoppedAfterFirst
             /\ regRet.desc = EmptyDescriptor
        /\ (rpc = "returned" /\ regRet.err # NoError) =>
             /\ regRet.bytes = "nil"
             /\ regRet.desc = EmptyDescriptor

\* FetchSignatureBlob returned the single blob of an artifact manifest that
\* also carries two layers.
C19_Witness ==
    /\ regOp = "FetchSignatureBlob"
    /\ rpc = "returned"
    /\ regRet.err = NoError
    /\ regArgs.desc.mediaType = "application/vnd.oci.artifact.manifest.v1+json"
    /\ Len(regCalls[1].res.content.blobs) = 1
    /\ Len(regCalls[1].res.content.layers) = 2
    /\ regRet.desc = regCalls[1].res.content.blobs[1]

-----------------------------------------------------------------------------
\* PluginSigner.Sign has returned an envelope and a nil error.
EnvelopeReturned ==
    /\ SignCalled("get-plugin-metadata")
    /\ spc \in {"signerReturned", "push", "done"}
    /\ sig.err = NoError

SignerHasReturned ==
    /\ SignCalled("get-plugin-metadata")
    /\ spc \in {"signerReturned", "push", "done"}

\* The generate-signature exchange passes every check named by C20: the
\* response's keyID is the configured one, its chain is non-empty and parses,
\* its signature was made over the signing input of the request with the key
\* of the leaf certificate, and the leaf allows code signing.
ResponseIsSound(c) ==
    /\ c.res.type = "GenerateSignatureResponse"
    /\ c.res.keyID = KeyID
    /\ Len(c.res.certificateChain) >= 1
    /\ \A i \in 1..Len(c.res.certificateChain) : c.res.certificateChain[i].parses
    /\ c.res.signature.over = c.arg.payload
    /\ c.res.signature.by = c.res.certificateChain[1].publicKey
    /\ c.res.certificateChain[1].codeSigning

\* C20: PluginSigner.Sign returns an envelope with a nil error only after a
\* generate-signature exchange whose response carries the configured keyID, a
\* non-empty chain that parses, a signature over the signing input that was
\* sent, made with the key of the leaf certificate, and a leaf certificate
\* with the code-signing usage; the envelope holds that signing input,
\* signature and chain.  After any other response it returns the nil envelope
\* and an error.
C20_EnvelopeOnlyFromSoundResponse ==
    /\ EnvelopeReturned =>
        /\ Len(SignCallsOf("generate-signature")) = 1
        /\ ResponseIsSound(SignCallsOf("generate-signature")[1])
        /\ sig.envelope.compact =
               <<SignCallsOf("generate-signature")[1].arg.payload,
                 SignCallsOf("generate-signature")[1].res.signature>>
        /\ sig.envelope.x5c = SignCallsOf("generate-signature")[1].res.certificateChain
    /\ (SignerHasReturned /\ sig.err # NoError) =>
        sig.envelope = [compact |-> <<>>, x5c |-> <<>>]
    /\ \A i \in 1..Len(signCalls) :
        (signCalls[i].op = "generate-signature" /\ ~ResponseIsSound(signCalls[i])) =>
            /\ sig.err # NoError
            /\ sig.envelope = [compact |-> <<>>, x5c |-> <<>>]

\* SignLocalContent returned the envelope made from a sound response with a
\* chain of two certificates.
C20_Witness ==
    /\ signFlow = "SignLocalContent"
    /\ spc = "done"
    /\ signRet.err = NoError
    /\ Len(signRet.sig.x5c) = 2
    /\ signRet.sig.x5c[1].publicKey = "pkA"
    /\ signRet.sig = sig.envelope

-----------------------------------------------------------------------------
\* The generate-signature response names another signing algorithm than the
\* one the signing input's header declares.
AlgorithmMismatch(c) ==
    /\ c.op = "generate-signature"
    /\ c.res.type = "GenerateSignatureResponse"
    /\ JWS(c.res.signingAlgorithm) # c.arg.payload.header.alg

\* C21: after a generate-signature response whose signing algorithm differs
\* from the algorithm of the key spec that describe-key answered (the one in
\* the header of the signing input), PluginSigner.Sign returns an error and
\* the nil envelope.
C21_AlgorithmMismatchRejected ==
    \A i \in 1..Len(signCalls) :
        AlgorithmMismatch(signCalls[i]) =>
            /\ sig.err # NoError
            /\ sig.envelope = NilEnvelope

-----------------------------------------------------------------------------
\* The plugin answered get-plugin-metadata with valid metadata that declares
\* the envelope-generator capability and not the signature-generator one.
EnvelopeGeneratorOnly(c) ==
    /\ c.op = "get-plugin-metadata"
    /\ c.res.type = "Metadata"
    /\ c.res.valid
    /\ c.res.capabilities = {"SIGNATURE_ENVELOPE_GENERATOR"}

\* C22: once PluginSigner.Sign has returned for a plugin that declares only
\* the envelope-generator capability, it has issued the generate-envelope
\* command, and it has returned either an envelope with a nil error or the
\* error of that command.
C22_EnvelopeGeneratorDelegates ==
    (/\ spc \in {"signerReturned", "push", "done"}
     /\ \E i \in 1..Len(signCalls) : EnvelopeGeneratorOnly(signCalls[i])) =>
        /\ SignCalled("generate-envelope")
        /\ sig.err # errNotImplemented

-----------------------------------------------------------------------------
\* The get-plugin-metadata command failed, or its metadata is invalid, or it
\* declares neither signing capability.
MetadataRefused(c) ==
    /\ c.op = "get-plugin-metadata"
    /\ \/ c.res.type = "error"
       \/ /\ c.res.type = "Metadata"
          /\ \/ ~c.res.valid
             \/ c.res.capabilities = {}

LaterCommands == {"describe-key", "generate-signature", "generate-envelope"}

\* C23: when get-plugin-metadata fails, or the metadata is invalid, or it
\* declares neither the signature-generator nor the envelope-generator
\* capability, PluginSigner.Sign returns an error and the nil envelope, and
\* get-plugin-metadata is the only plugin command it has issued.
C23_CapabilityGate ==
    \A i \in 1..Len(signCalls) :
        MetadataRefused(signCalls[i]) =>
            /\ spc \in {"signerReturned", "push", "done"}
            /\ sig.err # NoError
            /\ sig.envelope = NilEnvelope
            /\ \A j \in 1..Len(signCalls) : signCalls[j].op \notin LaterCommands
            /\ Len(SignCallsOf("get-plugin-metadata")) = 1

\* Sign has returned the error of a plugin whose valid metadata declares no
\* capability.
C23_Witness ==
    /\ signFlow = "Sign"
    /\ spc = "done"
    /\ signRet.err = errNoCapability
    /\ \E i \in 1..Len(signCalls) :
        /\ MetadataRefused(signCalls[i])
        /\ signCalls[i].res.type = "Metadata"
        /\ signCalls[i].res.valid

-----------------------------------------------------------------------------
\* The runner answered a plugin command, without error, with a response of
\* another type than the command's.
WrongResponseType(c) ==
    /\ c.op \in PluginCommands
    /\ c.res = WrongType

\* C24: when the runner answers get-plugin-metadata, describe-key or
\* generate-signature with a response of the wrong type, PluginSigner.Sign
\* returns the response-type error of that command and the nil envelope, and
\* that command is the last plugin command it has issued.
C24_ResponseTypeContract ==
    \A i \in 1..Len(signCalls) :
        WrongResponseType(signCalls[i]) =>
            /\ spc \in {"signerReturned", "push", "done"}
            /\ sig.err = errResponseType(signCalls[i].op)
            /\ sig.envelope = NilEnvelope
            /\ \A j \in (i + 1)..Len(signCalls) :
                   signCalls[j].op \notin PluginCommands \cup {"generate-envelope"}

\* The third command, generate-signature, was answered with the wrong type
\* and SignLocalContent has returned.
C24_Witness ==
    /\ signFlow = "SignLocalContent"
    /\ spc = "done"
    /\ signRet.err # NoError
    /\ Len(SignCallsOf("generate-signature")) = 1
    /\ WrongResponseType(SignCallsOf("generate-signature")[1])
    /\ ~WrongResponseType(SignCallsOf("describe-key")[1])

-----------------------------------------------------------------------------
\* The merge of a base map and a request map, as C25 states it.
MergedConfig(B, R) ==
    [k \in DOMAIN B \cup DOMAIN R |-> IF k \in DOMAIN R THEN R[k] ELSE B[k]]

\* C25: the config mergeConfig returns has the keys of s.PluginConfig and of
\* the request's config, with the request's value for a key of the request
\* and the signer's value otherwise; it is a map object of its own, so the
\* two given maps stay as they were; and the describe-key and the
\* generate-signature requests of the call both carry that merged config.
C25_MergedConfig ==
    /\ configMaps.s = PluginConfig
    /\ configMaps.opts = optsPluginConfig
    /\ cpc \in {"describeKey", "generateSignature", "done"} =>
        /\ config = "c"
        /\ configMaps.c = MergedConfig(PluginConfig, optsPluginConfig)
    /\ \A i \in 1..Len(requests) :
        requests[i].pluginConfig = MergedConfig(PluginConfig, optsPluginConfig)
    /\ cpc = "generateSignature" => Len(requests) = 1
    /\ (cpc = "done" /\ Len(requests) = 2) =>
        /\ requests[1].command = "describe-key"
        /\ requests[2].command = "generate-signature"
        /\ requests[1].pluginConfig = requests[2].pluginConfig

\* Both requests were sent with a config in which the request overrides one
\* key of the signer's config and keeps the other.
C25_Witness ==
    /\ cpc = "done"
    /\ Len(requests) = 2
    /\ PluginConfig = [k \in {"region", "profile"} |-> "x"]
    /\ optsPluginConfig = [k \in {"region"} |-> "y"]
    /\ requests[2].pluginConfig =
           [k \in {"region", "profile"} |-> IF k = "region" THEN "y" ELSE "x"]

-----------------------------------------------------------------------------
\* LoadX509TrustStore has returned a store and a nil error.
StoreLoaded ==
    /\ tpc = "returned"
    /\ storeRet.err = NoError

SelfSignedOrCA(cert) == isSelfSigned(cert) \/ cert.IsCA

\* C26 as stated: a store returned without error is not empty; its only
\* certificate is self-signed or a CA; when it holds two or more
\* certificates, each of them is a CA certificate.
C26_StoreInvariant ==
    StoreLoaded =>
        LET certs == storeRet.store.Certificates IN
        /\ Len(certs) >= 1
        /\ Len(certs) = 1 => SelfSignedOrCA(certs[1])
        /\ Len(certs) >= 2 => \A i \in 1..Len(certs) : certs[i].IsCA

\* C26 as the code has it: a store returned without error is not empty and
\* its only certificate is self-signed or a CA; the other rules hold for
\* each file: a file gave at least one certificate, the only certificate of
\* a file is self-signed or a CA, and the certificates of a file with two or
\* more are all CA certificates.  So every certificate of the store is
\* self-signed or a CA.
C26_PerFileInvariant ==
    StoreLoaded =>
        LET certs == storeRet.store.Certificates IN
        /\ Len(certs) >= 1
        /\ Len(certs) = 1 => SelfSignedOrCA(certs[1])
        /\ \A i \in 1..Len(certs) : SelfSignedOrCA(certs[i])
        /\ \A f \in 1..Len(fileCerts) :
            /\ fileCerts[f].err = NoError
            /\ Len(fileCerts[f].certs) >= 1
            /\ Len(fileCerts[f].certs) = 1 => SelfSignedOrCA(fileCerts[f].certs[1])
            /\ Len(fileCerts[f].certs) >= 2 =>
                 \A i \in 1..Len(fileCerts[f].certs) : fileCerts[f].certs[i].IsCA

\* A store was returned whose first file held one self-signed certificate
\* that is not a CA and whose second file held two CA certificates.
C26_Witness ==
    /\ StoreLoaded
    /\ Len(fileCerts) = 2
    /\ Len(fileCerts[1].certs) = 1
    /\ ~fileCerts[1].certs[1].IsCA
    /\ Len(fileCerts[2].certs) = 2
    /\ Len(storeRet.store.Certificates) = 3

-----------------------------------------------------------------------------
RECURSIVE Concatenation(_)
\* The certificates of the files read, one file after the other.
Concatenation(contents) ==
    IF contents = <<>> THEN <<>>
    ELSE contents[1].certs \o Concatenation(Tail(contents))

\* A file that makes the load fail: unreadable, without certificate, or with
\* certificates validateCerts refuses.
BadFile(content) ==
    \/ content.err # NoError
    \/ Len(content.certs) = 0
    \/ validateCerts(content.certs) # NoError

\* C27: LoadX509TrustStore returns an error and the nil store when the path
\* is missing, is not a directory or is a symlink, when an entry of the
\* directory is a directory or a symlink, and when a file cannot be read,
\* holds no certificate or fails validation; whenever it returns an error the
\* store is nil.  When it returns a store, every entry was read as a file and
\* the store holds the certificates of the files, in the order of the listing.
C27_AllOrNothing ==
    tpc = "returned" =>
        /\ storeRet.err # NoError => storeRet.store = NilStore
        /\ path \in {"missing", "file", "symlink"} =>
             /\ storeRet.err # NoError
             /\ fileCerts = <<>>
        /\ (\E i \in 1..Len(files) : files[i] \in {"directory", "symlink"}) =>
             storeRet.err # NoError
        /\ (\E f \in 1..Len(fileCerts) : BadFile(fileCerts[f])) =>
             storeRet.err # NoError
        /\ storeRet.err = NoError =>
             /\ ~storeRet.store.isNil
             /\ Len(fileCerts) = Len(files)
             /\ storeRet.store.Certificates = Concatenation(fileCerts)

\* The load failed on the second file after the certificates of the first
\* had been taken, and returned the nil store.
C27_Witness ==
    /\ tpc = "returned"
    /\ storeRet.err = errNotCA
    /\ storeRet.store = NilStore
    /\ Len(fileCerts) = 2
    /\ Len(trustStore) = 2

-----------------------------------------------------------------------------
\* The annotations the signing flow produced: those handed to PushSignature
\* by Sign, those returned by SignLocalContent.
AnnotationsProduced ==
    IF signFlow = "Sign"
    THEN SignCallsOf("PushSignature")[1].arg.annotations
    ELSE signRet.annotations

\* The flow has produced annotations.
AnnotationsGenerated ==
    IF signFlow = "Sign"
    THEN SignCalled("PushSignature")
    ELSE spc = "done" /\ signRet.err = NoError /\ SignCalled("signer.(signerAnnotation)")

\* The JSON array of the thumbprints of a chain of one or two certificates.
ThumbprintArray(chain) ==
    IF Len(chain) = 1
    THEN "[\"sha256(" \o chain[1].raw \o ")\"]"
    ELSE "[\"sha256(" \o chain[1].raw \o ")\",\"sha256(" \o chain[2].raw \o ")\"]"

\* C28: the annotations Sign hands to PushSignature and SignLocalContent
\* returns map io.cncf.notary.x509chain.thumbprint#S256 to the JSON array of
\* the thumbprints of the signer's chain, leaf first, whatever value the
\* plugin's annotations had for that key, and hold every other annotation of
\* the plugin as it was, and nothing else.
C28_ThumbprintAnnotation ==
    AnnotationsGenerated =>
        LET plugin == PluginAnnotations(SignCallsOf("signer.(signerAnnotation)")[1].res)
            chain == sig.envelope.x5c
        IN /\ Len(chain) \in 1..2 =>
                \A p \in AnnotationsProduced.kv :
                    p[1] = "io.cncf.notary.x509chain.thumbprint#S256" =>
                        p[2] = ThumbprintArray(chain)
           /\ \E p \in AnnotationsProduced.kv :
                p[1] = "io.cncf.notary.x509chain.thumbprint#S256"
           /\ \A p \in plugin.kv :
                p[1] # "io.cncf.notary.x509chain.thumbprint#S256" =>
                    p \in AnnotationsProduced.kv
           /\ \A p \in AnnotationsProduced.kv :
                p[1] # "io.cncf.notary.x509chain.thumbprint#S256" => p \in plugin.kv

\* SignLocalContent returned annotations for a chain of two certificates and
\* a plugin map that had its own value for the thumbprint key and one other
\* annotation.
C28_Witness ==
    /\ signFlow = "SignLocalContent"
    /\ AnnotationsGenerated
    /\ Len(sig.envelope.x5c) = 2
    /\ SignCallsOf("signer.(signerAnnotation)")[1].res.ok
    /\ SignCallsOf("signer.(signerAnnotation)")[1].res.annotations.kv =
           {<<"io.cncf.notary.x509chain.thumbprint#S256", "plugin">>, <<"pluginKey", "plugin">>}
    /\ signRet.annotations.kv =
           {<<"io.cncf.notary.x509chain.thumbprint#S256", "[\"sha256(leafA)\",\"sha256(ca)\"]">>,
            <<"pluginKey", "plugin">>}

-----------------------------------------------------------------------------
\* Verify has returned, after a Sign that returned a nil error.
RoundTripDone ==
    /\ flow = "Verify"
    /\ signFlow = "Sign"
    /\ pc = "done"

\* A signature the registry lists before the pushed one could not be fetched,
\* or made the verifier return an error without an outcome: either ends the
\* listing.
EarlierSignatureAborts ==
    \E i \in 1..Len(calls) :
        /\ calls[i].sig < listedAt
        /\ \/ calls[i].op = "FetchSignatureBlob" /\ calls[i].res = "error"
           \/ calls[i].op = "Verify" /\ calls[i].res = "nilOutcome"

-----------------------------------------------------------------------------
\* A call that ends the iteration: a fetch that failed, or a verification
\* that returned an error together with a nil outcome.
FatalCall(c) ==
    \/ c.op = "FetchSignatureBlob" /\ c.res = "error"
    \/ c.op = "Verify" /\ c.res = "nilOutcome"

\* The error the flow returns for the fatal call c.
FatalError(c) ==
    IF c.op = "FetchSignatureBlob" THEN errFetch(flow, c.sig) ELSE errVerifier(c.sig)

\* C31: when FetchSignatureBlob fails for a signature, or verifier.Verify
\* returns an error with a nil outcome, the flow makes no further call on the
\* repository or the verifier (no later signature is fetched or verified, no
\* later page is handed over), and it returns the zero descriptor, no outcome
\* and an error: of the ErrorSignatureRetrievalFailed kind for the fetch
\* failure, the verifier's own error for the nil outcome.
C31_FatalErrorAborts ==
    \A j \in 1..Len(calls) :
        FatalCall(calls[j]) =>
            /\ j = Len(calls)
            /\ pc = "done" =>
                /\ retDesc = ZeroDescriptor
                /\ retOutcomes = <<>>
                /\ retErr = FatalError(calls[j])
                /\ calls[j].op = "FetchSignatureBlob" =>
                        retErr.type = "ErrorSignatureRetrievalFailed"

\* The first of two delivered signatures cannot be fetched: the flow has
\* returned and the second was never fetched.
C31_Witness ==
    /\ pc = "done"
    /\ Len(delivered) >= 2
    /\ MaxSignatureAttempts >= 2
    /\ NumCalls("FetchSignatureBlob") = 1
    /\ calls[Len(calls)] = Call("FetchSignatureBlob", 1, "error")
    /\ retErr = errFetch(flow, 1)

-----------------------------------------------------------------------------
\* Every signature handed to the verifier failed with an outcome, and every
\* fetch succeeded.
AllFailed ==
    \A j \in 1..Len(calls) :
        /\ calls[j].op = "Verify" => calls[j].res \in SoftFailures
        /\ calls[j].op = "FetchSignatureBlob" => calls[j].res = "ok"

\* The aggregated verification failure: ErrorVerificationFailed{} or the
\* user-metadata error of a failed outcome.
IsAggregatedFailure(e) ==
    \/ e = ErrorVerificationFailed
    \/ e.type = "ErrorUserMetadataVerificationFailed"

\* C32 as claimed: the flow returns the 'total number of signatures ... should
\* be less than' error only when more signatures than MaxSignatureAttempts
\* were listed for the artifact; when at most MaxSignatureAttempts were
\* listed, the listing ended without error and all of them failed
\* verification, the flow returns the plain aggregated failure.
C32_LimitErrorOnlyAboveLimit ==
    pc = "done" =>
        /\ retErr = errExceededMaxVerificationLimit =>
                Len(delivered) > MaxSignatureAttempts
        /\ (/\ NumCalls("Verify") >= 1
            /\ Len(delivered) <= MaxSignatureAttempts
            /\ AllFailed
            /\ err # errReferrers) => IsAggregatedFailure(retErr)

\* C32 (amended): the flow returns the limit error exactly when
\* MaxSignatureAttempts signatures were processed, each fetched and each
\* failing verification with an outcome, which needs MaxSignatureAttempts
\* listed signatures or more; when fewer than MaxSignatureAttempts were
\* listed, the listing ended without error and all of them failed, the flow
\* returns the plain aggregated failure.
C32_LimitErrorFromLimit ==
    pc = "done" =>
        /\ retErr = errExceededMaxVerificationLimit <=>
                /\ NumCalls("ListSignatures") = 1
                /\ NumCalls("Verify") = MaxSignatureAttempts
                /\ AllFailed
        /\ retErr = errExceededMaxVerificationLimit =>
                /\ Len(delivered) >= MaxSignatureAttempts
                /\ retDesc = ZeroDescriptor
                /\ retOutcomes = <<>>
        /\ (/\ NumCalls("Verify") >= 1
            /\ Len(delivered) < MaxSignatureAttempts
            /\ AllFailed
            /\ err # errReferrers) => IsAggregatedFailure(retErr)

\* Exactly MaxSignatureAttempts signatures are listed, all fail, and the flow
\* returns the limit error.
C32_Witness ==
    /\ pc = "done"
    /\ MaxSignatureAttempts = 2
    /\ Len(delivered) = 2
    /\ NumCalls("Verify") = 2
    /\ AllFailed
    /\ retErr = errExceededMaxVerificationLimit

-----------------------------------------------------------------------------
\* C33: in both flows the skip decision is asked for only after the
\* repository has resolved the reference: every SkipVerify call comes after a
\* Resolve call that answered with a descriptor.
C33_ResolveBeforeSkip ==
    \A j \in 1..Len(calls) :
        calls[j].op = "SkipVerify" =>
            \E i \in 1..(j - 1) : calls[i].op = "Resolve" /\ calls[i].res \in Descriptors

-----------------------------------------------------------------------------
\* C35: every return of Verify and VerifyLocalContent carries at most one
\* outcome; an outcome is returned only together with a nil error, and it is
\* the outcome of a signature that verified or the skip outcome; every return
\* with an error carries no outcome, although signatures failed with one.
C35_NoFailedOutcomeReturned ==
    pc = "done" =>
        /\ Len(retOutcomes) <= 1
        /\ retOutcomes # <<>> => retErr = NoError
        /\ retErr # NoError => retOutcomes = <<>>
        /\ \A i \in 1..Len(retOutcomes) :
            /\ retOutcomes[i].Error = NoError
            /\ \/ SkipReported /\ retOutcomes[i] \in {SkipOutcome(lvl) : lvl \in Levels}
               \/ \E j \in 1..Len(calls) :
                    /\ calls[j] = Call("Verify", retOutcomes[i].RawSignature, "verified")
                    /\ retOutcomes[i] = VerifierOutcome(calls[j].sig, NoError)

\* Two signatures failed with an outcome before the limit ended the flow: the
\* limit error is returned with no outcome.
C35_Witness ==
    /\ pc = "done"
    /\ NumCalls("Verify") = 2
    /\ AllFailed
    /\ retErr = errExceededMaxVerificationLimit
    /\ retOutcomes = <<>>
    /\ verificationOutcomes = <<>>

-----------------------------------------------------------------------------
\* The fetches and verifications of a history, in call order, each with the
\* signature it was about and its result.
ProcessingOf(history) ==
    SelectSeq(history, LAMBDA c : c.op \in {"FetchSignatureBlob", "Verify"})

BothDone == first.done /\ pc = "done"

-----------------------------------------------------------------------------
\* C36: the annotation map of the descriptor the flow was given (by the caller
\* of SignLocalContent, by Resolve in Sign) holds at every moment what it held
\* when the flow got it; in particular it holds no user-metadata key after a
\* rejection.
C36_InputNotModified ==
    /\ annotationMaps.given = givenAnnotations.kv
    /\ (spc = "done" /\ signRet.err # NoError) =>
            \A k \in Keys(UserMetadata) \ Keys(givenAnnotations.kv) :
                ~HasKey(annotationMaps.given, k)

-----------------------------------------------------------------------------
\* The commands PluginSigner.Sign has run on the plugin, in call order.
CommandsRun == SelectSeq(signCalls, LAMBDA c : c.op \in PluginCommands)

CommandNames == [i \in 1..Len(CommandsRun) |-> CommandsRun[i].op]

\* C37: a call of PluginSigner.Sign runs get-plugin-metadata first, then at
\* most one describe-key, then at most one generate-signature; it runs
\* generate-signature only after describe-key answered with the configured
\* keyID and a key spec that has a signature algorithm; both requests carry
\* contract version "1" and the configured KeyID, and the generate-signature
\* request carries the key spec describe-key answered with.
C37_PluginCommandProtocol ==
    /\ IsPrefix(CommandNames, <<"get-plugin-metadata", "describe-key", "generate-signature">>)
    /\ \A i \in 1..Len(CommandsRun) :
        LET c == CommandsRun[i] IN
        /\ c.op \in {"describe-key", "generate-signature"} =>
                /\ c.arg.contractVersion = "1"
                /\ c.arg.keyID = KeyID
        /\ c.op = "generate-signature" =>
                /\ CommandsRun[i - 1].res.type = "DescribeKeyResponse"
                /\ CommandsRun[i - 1].res.keyID = KeyID
                /\ SignatureAlgorithm(CommandsRun[i - 1].res.keySpec) # ""
                /\ c.arg.keySpec = CommandsRun[i - 1].res.keySpec

\* All three commands were run, for the key spec RSA_3072.
C37_Witness ==
    /\ CommandNames = <<"get-plugin-metadata", "describe-key", "generate-signature">>
    /\ CommandsRun[2].res.keySpec = "RSA_3072"
    /\ CommandsRun[3].arg.keySpec = "RSA_3072"
    /\ CommandsRun[3].arg.keyID = KeyID

====
